---- MODULE Spec2Model ----
(***************************************************************************)
(* The Chat-Completions SSE ingestion pipeline of codex-api:               *)
(*   sse/chat_compat_fork.rs  ThinkTagStreamSplitter (the tag splitter)    *)
(*   sse/chat_compat.rs       process_chat_sse_with_format (the router),   *)
(*                            the tool-call table, parse_chat_usage        *)
(* Text is a sequence of one-character strings, so that a tag can be cut   *)
(* anywhere.  Option<T> is a sequence of length 0 (None) or 1 (Some).      *)
(***************************************************************************)
EXTENDS Integers, Sequences, FiniteSets, TLC

VARIABLES
    \* ---- process_chat_sse_with_format: the locals of the task
    tool_calls,              \* HashMap<usize, ToolCallState>
    tool_call_order,         \* Vec<usize>
    tool_call_order_seen,    \* HashSet<usize>
    tool_call_index_by_id,   \* HashMap<String, usize>
    next_tool_call_index,    \* usize
    last_tool_call_index,    \* Option<usize>
    assistant_item,          \* Option<ResponseItem::Message>
    reasoning_item,          \* Option<ResponseItem::Reasoning>
    content_splitter,        \* ThinkTagStreamSplitter {format, pending, in_think_block}
    token_usage,             \* Option<TokenUsage>
    out,                     \* what was sent on tx_event, in order
    state,                   \* "Streaming" | "Completed" | "Failed"
    tx_closed,               \* the task returned and dropped tx_event
    \* ---- history of the run (inputs and bookkeeping, not read by the code)
    frames,                  \* the inputs handled so far, in order
    deltaLog,                \* every tool-call delta with the index it resolved to
    emitted,                 \* every FunctionCall sent, with its index and flush
    epoch,                   \* number of tool-call flushes so far
    \* ---- the splitter driven alone (as in chat_compat_fork.rs tests)
    src_parts,               \* the text as outside/inside pieces
    rest,                    \* the part of the text not fed yet
    asst_cat,                \* concatenation of the Assistant segments returned
    reas_cat,                \* concatenation of the Reasoning segments returned
    ret,                     \* the segments the last call returned
    flushes,                 \* number of flush_remaining calls made
    midtag,                  \* some chunk ended strictly inside a tag
    \* ---- spawn_chat_stream: the bounded channel between the task and its consumer
    chan,                    \* the events in the channel, oldest first
    sends_done,              \* how many events of `out` the task's sends are done with
    received,                \* what the consumer took from rx_event, in order
    rx_dropped,              \* the consumer dropped rx_event
    rx_ended,                \* rx_event.recv() returned None to the consumer
    \* ---- ChatCompatClient::stream_prompt: what the stream was set up for
    provider                 \* Option: the provider, None when the task is run directly

routerVars == <<tool_calls, tool_call_order, tool_call_order_seen,
                tool_call_index_by_id, next_tool_call_index, last_tool_call_index,
                assistant_item, reasoning_item, token_usage, out, state, tx_closed,
                frames, deltaLog, emitted, epoch, chan, sends_done, received, rx_dropped,
                rx_ended>>
channelVars == <<chan, sends_done, received, rx_dropped, rx_ended>>
harnessVars == <<src_parts, rest, asst_cat, reas_cat, ret, flushes, midtag>>
setupVars == <<provider>>
vars == <<routerVars, content_splitter, harnessVars, setupVars>>

---------------------------------------------------------------------------
\* Option<T>
None == <<>>
Some(x) == <<x>>
IsSome(o) == Len(o) = 1
IsNone(o) == Len(o) = 0
Unwrap(o) == o[1]

SetMin(S) == CHOOSE x \in S : \A y \in S : x <= y
SetMax(S) == CHOOSE x \in S : \A y \in S : x >= y

RECURSIVE Flatten(_)
Flatten(ss) == IF ss = <<>> THEN <<>> ELSE Head(ss) \o Flatten(Tail(ss))

---------------------------------------------------------------------------
\* sse/chat_compat_fork.rs

OPEN_TAG == <<"<", "t", "h", "i", "n", "k", ">">>
CLOSE_TAG == <<"<", "/", "t", "h", "i", "n", "k", ">">>

Assistant(text) == [kind |-> "Assistant", text |-> text]
Reasoning(text) == [kind |-> "Reasoning", text |-> text]

\* ThinkTagStreamSplitter::new
NewSplitter(format) == [format |-> format, pending |-> <<>>, in_think_block |-> FALSE]

\* str::find: the byte offset of the leftmost occurrence
Find(buffer, tag) ==
    LET hits == {p \in 0..(Len(buffer) - Len(tag)) :
                     SubSeq(buffer, p + 1, p + Len(tag)) = tag}
    IN IF hits = {} THEN None ELSE Some(SetMin(hits))

\* faulty variant: the end of the buffer is held back whether or not it begins the tag
trailing_partial_tag_len_KeepsTail(buffer, tag) ==
    IF Len(buffer) < Len(tag) - 1 THEN Len(buffer) ELSE Len(tag) - 1

\* faulty variant: nothing is held back at the end of the buffer
trailing_partial_tag_len_KeepNothing(buffer, tag) == 0

\* the longest proper prefix of tag that ends buffer
trailing_partial_tag_len(buffer, tag) ==
    LET tagm1 == IF Len(tag) = 0 THEN 0 ELSE Len(tag) - 1
        max == IF Len(buffer) < tagm1 THEN Len(buffer) ELSE tagm1
        lens == {len \in 1..max :
                    SubSeq(tag, 1, len) = SubSeq(buffer, Len(buffer) - len + 1, Len(buffer))}
    IN IF lens = {} THEN 0 ELSE SetMax(lens)

\* take_prefix: the first `end` bytes are returned, the tail stays
take_prefix(buffer, end) ==
    [taken |-> SubSeq(buffer, 1, end), buffer |-> SubSeq(buffer, end + 1, Len(buffer))]

\* the body of the loop for one state of the block flag: in a block the
\* boundary is CLOSE_TAG and the text is Reasoning, outside OPEN_TAG and Assistant
RECURSIVE MinimaxLoop(_, _, _)
MinimaxLoop(pending, in_think_block, segments) ==
    LET tag == IF in_think_block THEN CLOSE_TAG ELSE OPEN_TAG
        Seg(t) == IF in_think_block THEN Reasoning(t) ELSE Assistant(t)
        found == Find(pending, tag)
    IN IF IsSome(found)
       THEN LET pos == Unwrap(found)
                tp == take_prefix(pending, pos)
                segs1 == IF pos > 0 THEN Append(segments, Seg(tp.taken)) ELSE segments
                pend1 == IF pos > 0 THEN tp.buffer ELSE pending
                drained == SubSeq(pend1, Len(tag) + 1, Len(pend1))
            IN MinimaxLoop(drained, ~in_think_block, segs1)
       ELSE LET keep == trailing_partial_tag_len(pending, tag)
                emit_len == IF Len(pending) >= keep THEN Len(pending) - keep ELSE 0
                tp == take_prefix(pending, emit_len)
            IN IF emit_len > 0
               THEN [pending |-> tp.buffer, in_think_block |-> in_think_block,
                     segments |-> Append(segments, Seg(tp.taken))]
               ELSE [pending |-> pending, in_think_block |-> in_think_block,
                     segments |-> segments]

split_minimax_chunk(sp, text) ==
    LET r == MinimaxLoop(sp.pending \o text, sp.in_think_block, <<>>)
    IN [sp |-> [sp EXCEPT !.pending = r.pending, !.in_think_block = r.in_think_block],
        segments |-> r.segments]

\* faulty variant: the empty text is handled like any other
split_chunk_NoEmptyCheck(sp, text) ==
    IF sp.format = "Standard"
    THEN [sp |-> sp, segments |-> <<Assistant(text)>>]
    ELSE split_minimax_chunk(sp, text)

\* faulty variant: the tags are split out whatever the format
split_chunk_IgnoresFormat(sp, text) ==
    IF text = <<>> THEN [sp |-> sp, segments |-> <<>>] ELSE split_minimax_chunk(sp, text)

split_chunk(sp, text) ==
    IF text = <<>>
    THEN [sp |-> sp, segments |-> <<>>]
    ELSE IF sp.format = "Standard"
         THEN [sp |-> sp, segments |-> <<Assistant(text)>>]
         ELSE split_minimax_chunk(sp, text)

\* faulty variant: the pending text is returned and stays in the buffer
flush_remaining_KeepsPending(sp) ==
    IF sp.pending = <<>>
    THEN [sp |-> sp, segments |-> <<>>]
    ELSE [sp |-> sp,
          segments |-> IF sp.in_think_block
                       THEN <<Reasoning(sp.pending)>>
                       ELSE <<Assistant(sp.pending)>>]

flush_remaining(sp) ==
    IF sp.pending = <<>>
    THEN [sp |-> sp, segments |-> <<>>]
    ELSE [sp |-> [sp EXCEPT !.pending = <<>>],
          segments |-> IF sp.in_think_block
                       THEN <<Reasoning(sp.pending)>>
                       ELSE <<Assistant(sp.pending)>>]

---------------------------------------------------------------------------
\* sse/chat_compat.rs: the events sent on tx_event and the items they carry

MessageItem(content) == [kind |-> "Message", role |-> "assistant", content |-> content]
ReasoningItem(content) == [kind |-> "Reasoning", content |-> content]
FunctionCall(name, arguments, call_id) ==
    [kind |-> "FunctionCall", name |-> name, arguments |-> arguments, call_id |-> call_id]

ItemAdded(item) == [type |-> "ItemAdded", item |-> item]
TextDelta(text) == [type |-> "TextDelta", text |-> text]
ReasoningDelta(text, content_index) ==
    [type |-> "ReasoningDelta", text |-> text, content_index |-> content_index]
ItemDone(item) == [type |-> "ItemDone", item |-> item]
Completed(usage) == [type |-> "Completed", response_id |-> "", usage |-> usage]
Error(kind, message) == [type |-> "Error", error |-> kind, message |-> message]

\* tx_event.send(..).await, its result ignored
Send(s, ev) == [s EXCEPT !.out = Append(@, ev)]

\* ToolCallState::default()
DefaultToolCallState == [id |-> None, name |-> None, arguments |-> ""]

\* format!("tool-call-{index}")
FallbackCallId(index) == "tool-call-" \o ToString(index)

\* faulty variant: every text opens a new assistant item
append_assistant_text_AlwaysOpens(s, text) ==
    Send(Send([s EXCEPT !.assistant_item = Some(MessageItem(<<text>>))],
              ItemAdded(MessageItem(<<>>))),
         TextDelta(text))

append_assistant_text(s, text) ==
    LET s1 == IF IsNone(s.assistant_item)
              THEN Send([s EXCEPT !.assistant_item = Some(MessageItem(<<>>))],
                        ItemAdded(MessageItem(<<>>)))
              ELSE s
        content == Unwrap(s1.assistant_item).content
        content1 == IF Len(content) > 0
                    THEN [content EXCEPT ![Len(content)] = @ \o text]
                    ELSE <<text>>
    IN Send([s1 EXCEPT !.assistant_item = Some(MessageItem(content1))], TextDelta(text))

\* faulty variant: every text is pushed as a part of its own
append_reasoning_text_SeparateParts(s, text) ==
    LET s1 == IF IsNone(s.reasoning_item)
              THEN Send([s EXCEPT !.reasoning_item = Some(ReasoningItem(<<>>))],
                        ItemAdded(ReasoningItem(<<>>)))
              ELSE s
        content == Unwrap(s1.reasoning_item).content
    IN Send([s1 EXCEPT !.reasoning_item = Some(ReasoningItem(Append(content, text)))],
            ReasoningDelta(text, Len(content)))

append_reasoning_text(s, text) ==
    LET s1 == IF IsNone(s.reasoning_item)
              THEN Send([s EXCEPT !.reasoning_item = Some(ReasoningItem(<<>>))],
                        ItemAdded(ReasoningItem(<<>>)))
              ELSE s
        content == Unwrap(s1.reasoning_item).content
        content1 == IF Len(content) > 0
                    THEN [content EXCEPT ![Len(content)] = @ \o text]
                    ELSE <<text>>
        content_index == IF Len(content) > 0 THEN Len(content) - 1 ELSE 0
    IN Send([s1 EXCEPT !.reasoning_item = Some(ReasoningItem(content1))],
            ReasoningDelta(text, content_index))

RECURSIVE append_content_segments(_, _)
append_content_segments(s, segments) ==
    IF segments = <<>> THEN s
    ELSE LET seg == Head(segments)
             s1 == IF seg.kind = "Assistant"
                   THEN append_assistant_text(s, seg.text)
                   ELSE append_reasoning_text(s, seg.text)
         IN append_content_segments(s1, Tail(segments))

\* faulty variant: every segment goes to the assistant item
SplitAndAppend_AllToAssistant(s, text) ==
    LET r == split_chunk(s.content_splitter, text)
    IN append_content_segments([s EXCEPT !.content_splitter = r.sp],
                               [k \in 1..Len(r.segments) |-> Assistant(r.segments[k].text)])

\* content_splitter.split_chunk(text) routed through append_content_segments
SplitAndAppend(s, text) ==
    LET r == split_chunk(s.content_splitter, text)
    IN append_content_segments([s EXCEPT !.content_splitter = r.sp], r.segments)

\* content_splitter.flush_remaining() routed through append_content_segments
FlushSplitter(s) ==
    LET r == flush_remaining(s.content_splitter)
    IN append_content_segments([s EXCEPT !.content_splitter = r.sp], r.segments)

\* reasoning_item.take() / assistant_item.take(), sent as OutputItemDone
CloseReasoning(s) ==
    IF IsSome(s.reasoning_item)
    THEN Send([s EXCEPT !.reasoning_item = None], ItemDone(Unwrap(s.reasoning_item)))
    ELSE s

CloseAssistant(s) ==
    IF IsSome(s.assistant_item)
    THEN Send([s EXCEPT !.assistant_item = None], ItemDone(Unwrap(s.assistant_item)))
    ELSE s

\* parse_chat_usage: a usage value is the map of the integer fields it holds
\* (JSON null holds none); the two nested fields are keyed by their leaf name
\* faulty variant: a missing total_tokens is reported as 0
parse_chat_usage_TotalDefaultsZero(usage) ==
    IF "prompt_tokens" \notin DOMAIN usage \/ "completion_tokens" \notin DOMAIN usage
    THEN None
    ELSE Some([input_tokens |-> usage["prompt_tokens"],
               cached_input_tokens |->
                   IF "cached_tokens" \in DOMAIN usage THEN usage["cached_tokens"] ELSE 0,
               output_tokens |-> usage["completion_tokens"],
               reasoning_output_tokens |->
                   IF "reasoning_tokens" \in DOMAIN usage THEN usage["reasoning_tokens"] ELSE 0,
               total_tokens |->
                   IF "total_tokens" \in DOMAIN usage THEN usage["total_tokens"] ELSE 0])

parse_chat_usage(usage) ==
    IF "prompt_tokens" \notin DOMAIN usage \/ "completion_tokens" \notin DOMAIN usage
    THEN None
    ELSE Some([input_tokens |-> usage["prompt_tokens"],
               cached_input_tokens |->
                   IF "cached_tokens" \in DOMAIN usage THEN usage["cached_tokens"] ELSE 0,
               output_tokens |-> usage["completion_tokens"],
               reasoning_output_tokens |->
                   IF "reasoning_tokens" \in DOMAIN usage THEN usage["reasoning_tokens"] ELSE 0,
               total_tokens |->
                   IF "total_tokens" \in DOMAIN usage THEN usage["total_tokens"]
                   ELSE usage["prompt_tokens"] + usage["completion_tokens"]])

\* faulty variant: a missing usage is reported as a record of zeros
flush_and_complete_DefaultUsage(s) ==
    LET s1 == CloseAssistant(CloseReasoning(FlushSplitter(s)))
        zero == [input_tokens |-> 0, cached_input_tokens |-> 0, output_tokens |-> 0,
                 reasoning_output_tokens |-> 0, total_tokens |-> 0]
    IN Send([s1 EXCEPT !.token_usage = None],
            Completed(IF IsSome(s.token_usage) THEN s.token_usage ELSE Some(zero)))

flush_and_complete(s) ==
    LET s1 == CloseAssistant(CloseReasoning(FlushSplitter(s)))
    IN Send([s1 EXCEPT !.token_usage = None], Completed(s.token_usage))

---------------------------------------------------------------------------
\* sse/chat_compat.rs: the tool-call table

\* faulty variant: the counter is taken without skipping the keys in use
FreshIndex_TakesCounter(s) ==
    [index |-> s.next_tool_call_index, next |-> s.next_tool_call_index + 1]

\* the unwrap_or_else closure: skip the keys in use, take the counter, advance it
FreshIndex(s) ==
    LET free == {n \in s.next_tool_call_index ..
                       (s.next_tool_call_index + Cardinality(DOMAIN s.tool_calls)) :
                     n \notin DOMAIN s.tool_calls}
        idx == SetMin(free)
    IN [index |-> idx, next |-> idx + 1]

\* faulty variant: a delta without id continues the previous delta even when it has an index
ResolveIndex_PreferLast(s, tc) ==
    LET by_id == IF IsSome(tc.id) /\ Unwrap(tc.id) \in DOMAIN s.tool_call_index_by_id
                 THEN Some(s.tool_call_index_by_id[Unwrap(tc.id)])
                 ELSE tc.index
        index == IF IsNone(tc.id) /\ IsSome(s.last_tool_call_index)
                 THEN s.last_tool_call_index ELSE by_id
    IN IF IsSome(index)
       THEN [index |-> Unwrap(index), next |-> s.next_tool_call_index]
       ELSE FreshIndex(s)

\* faulty variant: a delta without index and id never continues the previous delta
ResolveIndex_NeverContinues(s, tc) ==
    LET by_id == IF IsSome(tc.id) /\ Unwrap(tc.id) \in DOMAIN s.tool_call_index_by_id
                 THEN Some(s.tool_call_index_by_id[Unwrap(tc.id)])
                 ELSE tc.index
    IN IF IsSome(by_id)
       THEN [index |-> Unwrap(by_id), next |-> s.next_tool_call_index]
       ELSE FreshIndex(s)

\* faulty variant: the index a delta carries wins over the index its id is mapped to
ResolveIndex_IndexWins(s, tc) ==
    LET by_id == IF IsSome(tc.index) THEN tc.index
                 ELSE IF IsSome(tc.id) /\ Unwrap(tc.id) \in DOMAIN s.tool_call_index_by_id
                 THEN Some(s.tool_call_index_by_id[Unwrap(tc.id)])
                 ELSE None
        index == IF IsNone(by_id) /\ IsNone(tc.id) THEN s.last_tool_call_index ELSE by_id
    IN IF IsSome(index)
       THEN [index |-> Unwrap(index), next |-> s.next_tool_call_index]
       ELSE FreshIndex(s)

\* the index a delta is merged at, and the allocation counter after it
ResolveIndex(s, tc) ==
    LET by_id == IF IsSome(tc.id) /\ Unwrap(tc.id) \in DOMAIN s.tool_call_index_by_id
                 THEN Some(s.tool_call_index_by_id[Unwrap(tc.id)])
                 ELSE tc.index
        index == IF IsNone(by_id) /\ IsNone(tc.id) THEN s.last_tool_call_index ELSE by_id
    IN IF IsSome(index)
       THEN [index |-> Unwrap(index), next |-> s.next_tool_call_index]
       ELSE FreshIndex(s)

\* faulty variant: every id a delta carries replaces the stored id
MergeId_Overwrite(call_state, tc) ==
    IF IsSome(tc.id) THEN [call_state EXCEPT !.id = tc.id] ELSE call_state

\* call_state.id.get_or_insert_with
MergeId(call_state, tc) ==
    IF IsSome(tc.id) /\ IsNone(call_state.id)
    THEN [call_state EXCEPT !.id = tc.id]
    ELSE call_state

\* faulty variant: every string name, empty or not, replaces the stored name
MergeName_Overwrite(call_state, func) ==
    IF IsSome(func.name) THEN [call_state EXCEPT !.name = func.name] ELSE call_state

\* call_state.name.get_or_insert_with, for a non-empty string name only
MergeName(call_state, func) ==
    IF IsSome(func.name) /\ Unwrap(func.name) # "" /\ IsNone(call_state.name)
    THEN [call_state EXCEPT !.name = func.name]
    ELSE call_state

\* faulty variant: the fragment is put before what was accumulated
MergeArguments_Prepend(call_state, func) ==
    IF IsSome(func.arguments)
    THEN [call_state EXCEPT !.arguments = Unwrap(func.arguments) \o @]
    ELSE call_state

\* call_state.arguments.push_str
MergeArguments(call_state, func) ==
    IF IsSome(func.arguments)
    THEN [call_state EXCEPT !.arguments = @ \o Unwrap(func.arguments)]
    ELSE call_state

MergeFunction(call_state, tc) ==
    IF IsSome(tc.function)
    THEN MergeArguments(MergeName(call_state, Unwrap(tc.function)), Unwrap(tc.function))
    ELSE call_state

\* one element of delta.tool_calls
MergeToolCallDelta(s, tc) ==
    LET r == ResolveIndex(s, tc)
        index == r.index
        entry == IF index \in DOMAIN s.tool_calls THEN s.tool_calls[index]
                 ELSE DefaultToolCallState
        call_state == MergeFunction(MergeId(entry, tc), tc)
    IN [s EXCEPT
          !.next_tool_call_index = r.next,
          !.tool_calls = (index :> call_state) @@ @,
          !.tool_call_order = IF index \in s.tool_call_order_seen THEN @ ELSE Append(@, index),
          !.tool_call_order_seen = @ \cup {index},
          !.tool_call_index_by_id =
              IF IsSome(tc.id) /\ Unwrap(tc.id) \notin DOMAIN @
              THEN (Unwrap(tc.id) :> index) @@ @ ELSE @,
          !.last_tool_call_index = Some(index),
          !.deltaLog = Append(@, [delta |-> tc, resolved |-> index, epoch |-> s.epoch])]

RECURSIVE MergeToolCallDeltas(_, _)
MergeToolCallDeltas(s, tcs) ==
    IF tcs = <<>> THEN s
    ELSE MergeToolCallDeltas(MergeToolCallDelta(s, Head(tcs)), Tail(tcs))

\* faulty variant: a call without arguments is held back as well
HasName_AndArguments(call_state) == IsSome(call_state.name) /\ call_state.arguments # ""

\* whether a drained state is sent: `let Some(name) = name else { continue }`
HasName(call_state) == IsSome(call_state.name)

\* the item built from a drained state
FunctionCallOf(index, call_state) ==
    FunctionCall(Unwrap(call_state.name), call_state.arguments,
                 IF IsSome(call_state.id) THEN Unwrap(call_state.id)
                 ELSE FallbackCallId(index))

\* faulty variant: a drained index stays in tool_call_order_seen
DrainOne_KeepsSeen(s, index) ==
    IF index \notin DOMAIN s.tool_calls THEN s
    ELSE LET call_state == s.tool_calls[index]
             s1 == [s EXCEPT !.tool_calls = [k \in (DOMAIN @) \ {index} |-> @[k]]]
         IN IF HasName(call_state)
            THEN LET item == FunctionCallOf(index, call_state)
                 IN [Send(s1, ItemDone(item)) EXCEPT
                       !.emitted = Append(@, [index |-> index, epoch |-> s.epoch,
                                              item |-> item])]
            ELSE s1

\* `for index in tool_call_order.drain(..)`: one index
DrainOne(s, index) ==
    IF index \notin DOMAIN s.tool_calls THEN s
    ELSE LET call_state == s.tool_calls[index]
             s1 == [s EXCEPT
                      !.tool_calls = [k \in (DOMAIN @) \ {index} |-> @[k]],
                      !.tool_call_order_seen = @ \ {index}]
         IN IF HasName(call_state)
            THEN LET item == FunctionCallOf(index, call_state)
                 IN [Send(s1, ItemDone(item)) EXCEPT
                       !.emitted = Append(@, [index |-> index, epoch |-> s.epoch,
                                              item |-> item])]
            ELSE s1

RECURSIVE DrainLoop(_, _)
DrainLoop(s, order) ==
    IF order = <<>> THEN s ELSE DrainLoop(DrainOne(s, Head(order)), Tail(order))

\* faulty variant: the calls are sent and stay in the table and the order list
EmitToolCalls_KeepsTable(s) ==
    LET s1 == DrainLoop([s EXCEPT !.tool_call_order = <<>>], s.tool_call_order)
    IN [s1 EXCEPT !.epoch = @ + 1,
                  !.tool_calls = s.tool_calls,
                  !.tool_call_order = s.tool_call_order,
                  !.tool_call_order_seen = s.tool_call_order_seen]

\* faulty variant: the calls are drained by ascending index
EmitToolCalls_AscendingIndex(s) ==
    LET S == {s.tool_call_order[k] : k \in 1..Len(s.tool_call_order)}
        asc == CHOOSE q \in [1..Cardinality(S) -> S] :
                   \A a, b \in 1..Cardinality(S) : a < b => q[a] < q[b]
        s1 == DrainLoop([s EXCEPT !.tool_call_order = <<>>], asc)
    IN [s1 EXCEPT !.epoch = @ + 1]

\* the drain loop of the "stop" and "tool_calls" branches
EmitToolCalls(s) ==
    LET s1 == DrainLoop([s EXCEPT !.tool_call_order = <<>>], s.tool_call_order)
    IN [s1 EXCEPT !.epoch = @ + 1]

---------------------------------------------------------------------------
\* sse/chat_compat.rs: one choice, one frame, one poll

\* the three accepted shapes of a reasoning value: a string, {text}, {content}
ReasoningText(rv) ==
    IF IsSome(rv.str) THEN rv.str
    ELSE IF IsSome(rv.text) THEN rv.text
    ELSE rv.content

AppendReasoningValue(s, orv) ==
    IF IsSome(orv) /\ IsSome(ReasoningText(Unwrap(orv)))
    THEN append_reasoning_text(s, Unwrap(ReasoningText(Unwrap(orv))))
    ELSE s

\* delta.content: a string, or an array of items that may hold a text
RECURSIVE AppendContentItems(_, _)
AppendContentItems(s, items) ==
    IF items = <<>> THEN s
    ELSE AppendContentItems(
             IF IsSome(Head(items)) THEN SplitAndAppend(s, Unwrap(Head(items))) ELSE s,
             Tail(items))

AppendContent(s, oc) ==
    IF IsNone(oc) THEN s
    ELSE IF IsSome(Unwrap(oc).items) THEN AppendContentItems(s, Unwrap(Unwrap(oc).items))
    ELSE IF IsSome(Unwrap(oc).str) THEN SplitAndAppend(s, Unwrap(Unwrap(oc).str))
    ELSE s

HandleDelta(s, od) ==
    IF IsNone(od) THEN s
    ELSE LET d == Unwrap(od)
             s1 == AppendReasoningValue(s, d.reasoning)
             s2 == AppendContent(s1, d.content)
         IN IF IsSome(d.tool_calls) THEN MergeToolCallDeltas(s2, Unwrap(d.tool_calls)) ELSE s2

\* faulty variant: "stop" closes the items and leaves the accumulated tool calls unsent
FinishStop_DropToolCalls(s) == CloseAssistant(CloseReasoning(FlushSplitter(s)))

\* faulty variant: "stop" completes the turn at once
FinishStop_CompleteEagerly(s) ==
    LET s1 == EmitToolCalls(CloseAssistant(CloseReasoning(FlushSplitter(s))))
    IN Send([s1 EXCEPT !.token_usage = None], Completed(s.token_usage))

\* finish_reason == Some("stop")
FinishStop(s) == EmitToolCalls(CloseAssistant(CloseReasoning(FlushSplitter(s))))

\* faulty variant: "length" sends the error and stays in the loop
FinishLength_NoReturn(s) == Send(s, Error("ContextWindowExceeded", ""))

\* faulty variant: "length" closes the open items before it fails
FinishLength_CloseFirst(s) ==
    [Send(CloseAssistant(CloseReasoning(s)), Error("ContextWindowExceeded", ""))
        EXCEPT !.state = "Failed", !.tx_closed = TRUE]

\* finish_reason == Some("length"): the error is sent and the task returns
FinishLength(s) ==
    [Send(s, Error("ContextWindowExceeded", "")) EXCEPT !.state = "Failed", !.tx_closed = TRUE]

\* faulty variant: "tool_calls" closes the assistant item as "stop" does
FinishToolCalls_ClosesAssistant(s) ==
    EmitToolCalls(CloseAssistant(CloseReasoning(FlushSplitter(s))))

\* finish_reason == Some("tool_calls")
FinishToolCalls(s) == EmitToolCalls(CloseReasoning(FlushSplitter(s)))

HandleFinish(s, finish_reason) ==
    IF finish_reason = Some("stop") THEN FinishStop(s)
    ELSE IF finish_reason = Some("length") THEN FinishLength(s)
    ELSE IF finish_reason = Some("tool_calls") THEN FinishToolCalls(s)
    ELSE s

HandleChoice(s, choice) ==
    HandleFinish(AppendReasoningValue(HandleDelta(s, choice.delta), choice.message_reasoning),
                 choice.finish_reason)

\* faulty variant: only the first choice of a frame is handled
HandleChoices_FirstOnly(s, choices) ==
    IF choices = <<>> \/ s.state # "Streaming" THEN s ELSE HandleChoice(s, Head(choices))

\* `for choice in choices`, left by the return of the "length" branch
RECURSIVE HandleChoices(_, _)
HandleChoices(s, choices) ==
    IF choices = <<>> \/ s.state # "Streaming" THEN s
    ELSE HandleChoices(HandleChoice(s, Head(choices)), Tail(choices))

\* faulty variant: a new usage record is added to the stored one, field by field
StoreUsage_Merges(s, value) ==
    IF IsNone(value.usage) THEN s
    ELSE LET new == parse_chat_usage(Unwrap(value.usage))
         IN IF IsSome(new) /\ IsSome(s.token_usage)
            THEN [s EXCEPT !.token_usage =
                     Some([f \in DOMAIN Unwrap(new) |-> Unwrap(new)[f] + Unwrap(s.token_usage)[f]])]
            ELSE [s EXCEPT !.token_usage = new]

\* a frame that parsed as JSON
StoreUsage(s, value) ==
    IF IsSome(value.usage)
    THEN [s EXCEPT !.token_usage = parse_chat_usage(Unwrap(value.usage))]
    ELSE s

\* faulty variant: the usage of a frame without a choices array is dropped
HandleValue_UsageNeedsChoices(s, value) ==
    IF IsSome(value.choices)
    THEN HandleChoices(StoreUsage(s, value), Unwrap(value.choices))
    ELSE s

HandleValue(s, value) ==
    LET s1 == StoreUsage(s, value)
    IN IF IsSome(value.choices) THEN HandleChoices(s1, Unwrap(value.choices)) ELSE s1

\* faulty variant: only the bracketed spelling ends the stream
IsSentinel_BracketedOnly(data) == data = "[DONE]"

\* a frame's payload after trim(): "" | a sentinel | text that is no JSON | JSON
IsSentinel(data) == data = "[DONE]" \/ data = "DONE"

CompleteAndReturn(s) ==
    [flush_and_complete(s) EXCEPT !.state = "Completed", !.tx_closed = TRUE]

HandleData(s, frame) ==
    IF frame.data = "" THEN s
    ELSE IF IsSentinel(frame.data) THEN CompleteAndReturn(s)
    ELSE IF IsNone(frame.json) THEN s
    ELSE HandleValue(s, Unwrap(frame.json))

\* faulty variant: what is open or pending is flushed before the error is sent
FailAndReturn_FlushFirst(s, message) ==
    [Send(CloseAssistant(CloseReasoning(FlushSplitter(s))), Error("Stream", message))
        EXCEPT !.state = "Failed", !.tx_closed = TRUE]

FailAndReturn(s, message) ==
    [Send(s, Error("Stream", message)) EXCEPT !.state = "Failed", !.tx_closed = TRUE]

\* faulty variant: after an idle timeout the loop polls again
HandlePoll_TimeoutRetries(s, input) ==
    IF input.poll = "frame" THEN HandleData(s, input)
    ELSE IF input.poll = "error" THEN FailAndReturn(s, "transport error")
    ELSE IF input.poll = "end" THEN CompleteAndReturn(s)
    ELSE s

\* one turn of the outer loop: the poll result and what follows from it
HandlePoll(s, input) ==
    IF input.poll = "frame" THEN HandleData(s, input)
    ELSE IF input.poll = "error" THEN FailAndReturn(s, "transport error")
    ELSE IF input.poll = "end" THEN CompleteAndReturn(s)
    ELSE FailAndReturn(s, "idle timeout waiting for SSE")

---------------------------------------------------------------------------
\* The state of the task as one record, and the inputs it is given

Cur == [tool_calls |-> tool_calls, tool_call_order |-> tool_call_order,
        tool_call_order_seen |-> tool_call_order_seen,
        tool_call_index_by_id |-> tool_call_index_by_id,
        next_tool_call_index |-> next_tool_call_index,
        last_tool_call_index |-> last_tool_call_index,
        assistant_item |-> assistant_item, reasoning_item |-> reasoning_item,
        content_splitter |-> content_splitter, token_usage |-> token_usage,
        out |-> out, state |-> state, tx_closed |-> tx_closed,
        deltaLog |-> deltaLog, emitted |-> emitted, epoch |-> epoch]

Commit(s) ==
    /\ tool_calls' = s.tool_calls
    /\ tool_call_order' = s.tool_call_order
    /\ tool_call_order_seen' = s.tool_call_order_seen
    /\ tool_call_index_by_id' = s.tool_call_index_by_id
    /\ next_tool_call_index' = s.next_tool_call_index
    /\ last_tool_call_index' = s.last_tool_call_index
    /\ assistant_item' = s.assistant_item
    /\ reasoning_item' = s.reasoning_item
    /\ content_splitter' = s.content_splitter
    /\ token_usage' = s.token_usage
    /\ out' = s.out
    /\ state' = s.state
    /\ tx_closed' = s.tx_closed
    /\ deltaLog' = s.deltaLog
    /\ emitted' = s.emitted
    /\ epoch' = s.epoch

\* bounds of the model
MaxFrames == 3
MaxDeltaFrames == 4
MaxChunks == 3
MaxUsageFrames == 1
\* mpsc::channel(1600) in spawn_chat_stream, 16 in the tests: a small capacity
\* lets the channel fill within the bounds
ChannelCapacity == 2
MaxBlocks == 1

Formats == {"Standard", "MinimaxThinkTags"}

\* JSON builders for the inputs
Str(text) == [str |-> Some(text), text |-> None, content |-> None, items |-> None]
TextObj(text) == [str |-> None, text |-> Some(text), content |-> None, items |-> None]
ContentObj(text) == [str |-> None, text |-> None, content |-> Some(text), items |-> None]
Items(items) == [str |-> None, text |-> None, content |-> None, items |-> Some(items)]

Delta(reasoning, content, tcs) ==
    [reasoning |-> reasoning, content |-> content, tool_calls |-> tcs]
Choice(delta, message_reasoning, finish_reason) ==
    [delta |-> delta, message_reasoning |-> message_reasoning, finish_reason |-> finish_reason]
Json(usage, choices) ==
    [poll |-> "frame", data |-> "json", json |-> Some([usage |-> usage, choices |-> choices])]
Raw(data) == [poll |-> "frame", data |-> data, json |-> None]
Poll(result) == [poll |-> result, data |-> "", json |-> None]

ToolCall(index, id, function) == [index |-> index, id |-> id, function |-> function]
Func(name, arguments) == Some([name |-> name, arguments |-> arguments])

ContentFrame(text) == Json(None, Some(<<Choice(Some(Delta(None, Some(Str(text)), None)), None, None)>>))
ReasoningFrame(rv) == Json(None, Some(<<Choice(Some(Delta(Some(rv), None, None)), None, None)>>))
ToolCallFrame(tcs) == Json(None, Some(<<Choice(Some(Delta(None, None, Some(tcs))), None, None)>>))
FinishFrame(reason) == Json(None, Some(<<Choice(None, None, Some(reason))>>))
UsageFrame(usage, choices) == Json(Some(usage), choices)

InitTask ==
    /\ tool_calls = <<>>
    /\ tool_call_order = <<>>
    /\ tool_call_order_seen = {}
    /\ tool_call_index_by_id = <<>>
    /\ next_tool_call_index = 0
    /\ last_tool_call_index = None
    /\ assistant_item = None
    /\ reasoning_item = None
    /\ token_usage = None
    /\ out = <<>>
    /\ state = "Streaming"
    /\ tx_closed = FALSE
    /\ frames = <<>>
    /\ deltaLog = <<>>
    /\ emitted = <<>>
    /\ epoch = 0
    /\ chan = <<>>
    /\ sends_done = 0
    /\ received = <<>>
    /\ rx_dropped = FALSE
    /\ rx_ended = FALSE

\* the task run directly on a byte stream, as the tests do: no provider
InitRouter ==
    /\ InitTask
    /\ provider = None

InitHarness ==
    /\ src_parts = <<>>
    /\ rest = <<>>
    /\ asst_cat = <<>>
    /\ reas_cat = <<>>
    /\ ret = <<>>
    /\ flushes = 0
    /\ midtag = FALSE

\* one turn of the loop of process_chat_sse_with_format on `input`
Step(input) ==
    /\ state = "Streaming"
    /\ Commit(HandlePoll(Cur, input))
    /\ frames' = Append(frames, input)
    /\ UNCHANGED <<setupVars, harnessVars, channelVars>>

---------------------------------------------------------------------------
\* The splitter driven alone: a text of ordinary pieces and well-formed
\* <think>...</think> blocks is cut into chunks, fed in order, then flushed

\* ordinary text: holds no complete tag, may hold the beginning of one
OutsideTexts == { <<>>, <<"a">>, <<"<", "t", "h">> }
InsideTexts == { <<>>, <<"b">>, <<"<", "/", "t">> }

RECURSIVE PartsOfBlocks(_)
PartsOfBlocks(n) ==
    IF n = 0 THEN {<<o>> : o \in OutsideTexts}
    ELSE {p \o <<i, o>> : p \in PartsOfBlocks(n - 1), i \in InsideTexts, o \in OutsideTexts}

\* <<outside, inside, outside, ..., inside, outside>>
WellFormedParts == UNION {PartsOfBlocks(n) : n \in 0..MaxBlocks}

RECURSIVE TextOf(_)
TextOf(parts) ==
    IF Len(parts) = 1 THEN parts[1]
    ELSE parts[1] \o OPEN_TAG \o parts[2] \o CLOSE_TAG \o TextOf(Tail(Tail(parts)))

RECURSIVE OutsideOf(_)
OutsideOf(parts) ==
    IF Len(parts) = 1 THEN parts[1] ELSE parts[1] \o OutsideOf(Tail(Tail(parts)))

RECURSIVE InsideOf(_)
InsideOf(parts) ==
    IF Len(parts) = 1 THEN <<>> ELSE parts[2] \o InsideOf(Tail(Tail(parts)))

\* the offsets of the text that lie strictly inside a tag
RECURSIVE TagInteriors(_, _)
TagInteriors(parts, base) ==
    IF Len(parts) = 1 THEN {}
    ELSE LET o == base + Len(parts[1])
             c == o + Len(OPEN_TAG) + Len(parts[2])
         IN ((o + 1)..(o + Len(OPEN_TAG) - 1)) \cup ((c + 1)..(c + Len(CLOSE_TAG) - 1))
            \cup TagInteriors(Tail(Tail(parts)), c + Len(CLOSE_TAG))

TextsOfKind(segments, kind) ==
    Flatten([i \in 1..Len(segments) |->
                IF segments[i].kind = kind THEN segments[i].text ELSE <<>>])

InitSplit ==
    /\ InitRouter
    /\ \E format \in Formats : content_splitter = NewSplitter(format)
    /\ src_parts \in WellFormedParts
    /\ rest = TextOf(src_parts)
    /\ asst_cat = <<>>
    /\ reas_cat = <<>>
    /\ ret = <<>>
    /\ flushes = 0
    /\ midtag = FALSE

Returned(r) ==
    /\ content_splitter' = r.sp
    /\ ret' = r.segments
    /\ asst_cat' = asst_cat \o TextsOfKind(r.segments, "Assistant")
    /\ reas_cat' = reas_cat \o TextsOfKind(r.segments, "Reasoning")

\* split_chunk on the next n characters of the text
SplitChunk ==
    /\ flushes = 0
    /\ \E n \in 1..Len(rest) :
          /\ Returned(split_chunk(content_splitter, SubSeq(rest, 1, n)))
          /\ rest' = SubSeq(rest, n + 1, Len(rest))
          /\ midtag' = (midtag \/ (Len(TextOf(src_parts)) - Len(rest) + n)
                                      \in TagInteriors(src_parts, 0))
    /\ UNCHANGED <<setupVars, routerVars, src_parts, flushes>>

\* flush_remaining at the end of the text (and once more)
Flush ==
    /\ rest = <<>>
    /\ flushes < 2
    /\ Returned(flush_remaining(content_splitter))
    /\ flushes' = flushes + 1
    /\ UNCHANGED <<setupVars, routerVars, src_parts, rest, midtag>>

NextSplit == SplitChunk \/ Flush

SpecSplit == InitSplit /\ [][NextSplit]_vars

IsPrefix(p, t) == Len(p) <= Len(t) /\ SubSeq(t, 1, Len(p)) = p

\* C1: in MinimaxThinkTags mode, for every text of ordinary pieces and
\* well-formed think blocks and every cut into non-empty chunks, the Assistant
\* segments concatenate to the text outside the tags and the Reasoning segments
\* to the text inside them once the text is fed and flushed; before that they
\* are prefixes of those texts, so no character of a tag is emitted as content.
C1_SplitReassembles ==
    content_splitter.format = "MinimaxThinkTags" =>
        /\ IsPrefix(asst_cat, OutsideOf(src_parts))
        /\ IsPrefix(reas_cat, InsideOf(src_parts))
        /\ (rest = <<>> /\ flushes >= 1) =>
               /\ asst_cat = OutsideOf(src_parts)
               /\ reas_cat = InsideOf(src_parts)

C1_Witness ==
    /\ content_splitter.format = "MinimaxThinkTags"
    /\ rest = <<>> /\ flushes = 1 /\ midtag
    /\ Len(src_parts) = 3
    /\ asst_cat = <<"<", "t", "h", "a">>
    /\ reas_cat = <<"<", "/", "t">>

---------------------------------------------------------------------------
\* The router: the frames the provider may send and the ways the stream ends

\* tool-call deltas: with and without index, id, name and arguments
ToolDeltas ==
    { ToolCall(Some(0), Some("a"), Func(Some("f"), Some("x"))),
      ToolCall(Some(0), None, Func(None, Some("y"))),
      ToolCall(Some(0), None, Func(Some(""), Some("z"))),
      ToolCall(Some(1), Some("b"), Func(Some("g"), None)),
      ToolCall(None, Some("a"), Func(Some("g"), Some("y"))),
      ToolCall(None, None, Func(None, Some("z"))),
      ToolCall(Some(1), None, Func(Some(""), Some("x"))),
      ToolCall(Some(1), Some("a"), Func(Some("h"), Some("y"))),
      ToolCall(None, Some("c"), Func(Some("f"), Some(""))),
      ToolCall(Some(0), Some("b"), None) }

\* frames that carry two deltas at once
ToolDeltaPairs ==
    { <<ToolCall(Some(1), Some("b"), Func(Some("g"), Some("x"))),
        ToolCall(Some(0), Some("a"), Func(Some("f"), Some("y")))>>,
      <<ToolCall(None, None, Func(Some("f"), Some("x"))),
        ToolCall(None, None, Func(Some("g"), Some("y")))>> }

ToolFinishReasons == {"stop", "tool_calls"}
FinishReasons == {"stop", "length", "tool_calls", "content_filter"}
Sentinels == {"[DONE]", "DONE"}

ContentChunks ==
    { <<"a">>, OPEN_TAG \o <<"r">>, CLOSE_TAG \o <<"b">>, <<"c", "<">> }

ReasoningValues == { Str(<<"p">>), TextObj(<<"q">>), ContentObj(<<"s">>) }

MainDeltas ==
    { ToolCall(Some(0), Some("a"), Func(Some("do_a"), Some("{}"))),
      ToolCall(None, None, Func(Some(""), Some("x"))),
      ToolCall(Some(1), None, Func(None, Some("y"))) }

\* usage objects: complete, without total_tokens, without completion_tokens, null
UsageValues ==
    { [prompt_tokens |-> 10, completion_tokens |-> 20, total_tokens |-> 30,
       reasoning_tokens |-> 5, cached_tokens |-> 2],
      [prompt_tokens |-> 42, completion_tokens |-> 10],
      [prompt_tokens |-> 7],
      <<>> }

\* frames that put several things in one choice, or several choices in one frame
MixedFrames ==
    { Json(None, Some(<<Choice(Some(Delta(Some(Str(<<"p">>)), Some(Str(<<"c", "<">>)),
                                         Some(<<ToolCall(Some(0), Some("a"),
                                                         Func(Some("do_a"), Some("{}")))>>))),
                            None, None)>>)),
      Json(None, Some(<<Choice(Some(Delta(None, Some(Str(<<"a">>)), None)), None, Some("stop")),
                        Choice(Some(Delta(None, Some(Str(<<"b">>)), None)), None, None)>>)),
      Json(None, Some(<<Choice(Some(Delta(None, Some(Str(<<"a">>)), None)), None, Some("length")),
                        Choice(Some(Delta(None, Some(Str(<<"b">>)), None)), None, Some("stop"))>>)),
      Json(Some([prompt_tokens |-> 1, completion_tokens |-> 2]),
           Some(<<Choice(None, Some(Str(<<"m">>)), Some("stop"))>>)) }

RecvContent(bound) ==
    \E text \in ContentChunks :
        /\ Len(frames) < bound
        /\ Step(ContentFrame(text))
RecvReasoning(bound) ==
    \E rv \in ReasoningValues :
        /\ Len(frames) < bound
        /\ Step(ReasoningFrame(rv))
RecvToolCall(D, bound) ==
    \E tc \in D :
        /\ Len(frames) < bound
        /\ Step(ToolCallFrame(<<tc>>))
RecvToolCallPair(bound) ==
    \E tcs \in ToolDeltaPairs :
        /\ Len(frames) < bound
        /\ Step(ToolCallFrame(tcs))
RecvFinish(R, bound) ==
    \E reason \in R :
        /\ Len(frames) < bound
        /\ Step(FinishFrame(reason))
RecvUsage(bound) ==
    \E usage \in UsageValues, choices \in {None, Some(<<>>)} :
        /\ Len(frames) < bound
        /\ Step(UsageFrame(usage, choices))
RecvMixed(bound) ==
    \E frame \in MixedFrames :
        /\ Len(frames) < bound
        /\ Step(frame)
\* a blank payload, a payload that is no JSON, a JSON value without choices
RecvSkipped(bound) ==
    \E frame \in {Raw(""), Raw("not json"), Json(None, None)} :
        /\ Len(frames) < bound
        /\ Step(frame)
RecvDone(bound) ==
    \E data \in Sentinels :
        /\ Len(frames) < bound
        /\ Step(Raw(data))
StreamEnd(bound) ==
    /\ Len(frames) < bound
    /\ Step(Poll("end"))
TransportError(bound) ==
    /\ Len(frames) < bound
    /\ Step(Poll("error"))
IdleTimeout(bound) ==
    /\ Len(frames) < bound
    /\ Step(Poll("timeout"))

Init ==
    /\ InitRouter
    /\ \E format \in Formats : content_splitter = NewSplitter(format)
    /\ InitHarness

Next ==
    \/ RecvContent(MaxFrames)
    \/ RecvReasoning(MaxFrames)
    \/ RecvToolCall(MainDeltas, MaxFrames)
    \/ RecvFinish(FinishReasons, MaxFrames)
    \/ RecvUsage(MaxFrames)
    \/ RecvMixed(MaxFrames)
    \/ RecvSkipped(MaxFrames)
    \/ RecvDone(MaxFrames)
    \/ StreamEnd(MaxFrames)
    \/ TransportError(MaxFrames)
    \/ IdleTimeout(MaxFrames)

Spec == Init /\ [][Next]_vars

\* the tool-call table alone: deltas, the two flushing finish reasons, the sentinel
InitTool ==
    /\ InitRouter
    /\ content_splitter = NewSplitter("Standard")
    /\ InitHarness

NextTool ==
    \/ RecvToolCall(ToolDeltas, MaxDeltaFrames)
    \/ RecvToolCallPair(MaxDeltaFrames)
    \/ RecvFinish(ToolFinishReasons, MaxDeltaFrames)
    \/ RecvDone(MaxDeltaFrames)

SpecTool == InitTool /\ [][NextTool]_vars

---------------------------------------------------------------------------
\* What the history says about the tool calls

\* the deltas that were merged at `index` during flush period `ep`, in arrival order
DeltasOf(index, ep) ==
    LET hit(r) == r.resolved = index /\ r.epoch = ep
        rows == SelectSeq(deltaLog, hit)
    IN [k \in 1..Len(rows) |-> rows[k].delta]

ArgsFragment(tc) ==
    IF IsSome(tc.function) /\ IsSome(Unwrap(tc.function).arguments)
    THEN Unwrap(Unwrap(tc.function).arguments) ELSE ""

NameSent(tc) ==
    IF IsSome(tc.function) /\ IsSome(Unwrap(tc.function).name)
    THEN Unwrap(Unwrap(tc.function).name) ELSE ""

RECURSIVE ConcatFragments(_)
ConcatFragments(tcs) ==
    IF tcs = <<>> THEN "" ELSE ArgsFragment(Head(tcs)) \o ConcatFragments(Tail(tcs))

\* the first non-empty name among the deltas, if any
FirstNonEmptyName(tcs) ==
    LET named == {k \in 1..Len(tcs) : NameSent(tcs[k]) # ""}
    IN IF named = {} THEN None ELSE Some(NameSent(tcs[SetMin(named)]))

IsFunctionCallDone(ev) == ev.type = "ItemDone" /\ ev.item.kind = "FunctionCall"
FunctionCallsSent == SelectSeq(out, IsFunctionCallDone)

\* the FunctionCall items sent are those the history recorded, in the same order
EmittedMatchesOut ==
    /\ Len(FunctionCallsSent) = Len(emitted)
    /\ \A k \in 1..Len(emitted) : FunctionCallsSent[k].item = emitted[k].item

EmittedFor(index, ep) ==
    {k \in 1..Len(emitted) : emitted[k].index = index /\ emitted[k].epoch = ep}

\* C2: the arguments of the FunctionCall sent for an index are the argument
\* fragments of the deltas merged at that index, concatenated in arrival order
\* (and the table holds that same concatenation while the call accumulates).
C2_ArgumentsConcatenate ==
    /\ EmittedMatchesOut
    /\ \A k \in 1..Len(emitted) :
          emitted[k].item.arguments =
              ConcatFragments(DeltasOf(emitted[k].index, emitted[k].epoch))
    /\ \A i \in DOMAIN tool_calls :
          tool_calls[i].arguments = ConcatFragments(DeltasOf(i, epoch))

C2_Witness ==
    \E k \in 1..Len(emitted) :
        /\ Len(DeltasOf(emitted[k].index, emitted[k].epoch)) >= 3
        /\ emitted[k].item.arguments = "xyz"
        /\ FunctionCallsSent[k].item.arguments = "xyz"

\* a delta that opens a call with an index and an id never seen before, all the
\* later deltas of that call carrying that index and no id
OpensCallWithIndexAndId(p) ==
    LET row == deltaLog[p]
        d == row.delta
    IN /\ IsSome(d.index) /\ IsSome(d.id)
       /\ \A q \in 1..(p - 1) :
             /\ deltaLog[q].delta.id # d.id
             /\ ~(deltaLog[q].epoch = row.epoch /\ deltaLog[q].resolved = Unwrap(d.index))
       /\ \A q \in (p + 1)..Len(deltaLog) :
             (deltaLog[q].epoch = row.epoch
                /\ (deltaLog[q].resolved = Unwrap(d.index) \/ deltaLog[q].delta.index = d.index))
             => (deltaLog[q].delta.index = d.index /\ IsNone(deltaLog[q].delta.id))

\* C3: when the delta that opens a call carries an index and an id, and the
\* later deltas of the call carry only that index, all of them are merged at
\* that index, the call keeps the id, and once flushed with a name exactly one
\* FunctionCall was sent for them, with that id as call_id.
C3_MergedByIndex ==
    \A p \in 1..Len(deltaLog) :
        OpensCallWithIndexAndId(p) =>
            LET row == deltaLog[p]
                i == Unwrap(row.delta.index)
                ds == DeltasOf(i, row.epoch)
                sent == EmittedFor(i, row.epoch)
            IN /\ row.resolved = i
               /\ \A q \in (p + 1)..Len(deltaLog) :
                     (deltaLog[q].epoch = row.epoch /\ deltaLog[q].delta.index = row.delta.index)
                         => deltaLog[q].resolved = i
               /\ row.epoch = epoch =>
                     (i \in DOMAIN tool_calls /\ tool_calls[i].id = row.delta.id)
               /\ \A k \in sent : emitted[k].item.call_id = Unwrap(row.delta.id)
               /\ Cardinality(sent) =
                     (IF row.epoch < epoch /\ IsSome(FirstNonEmptyName(ds)) THEN 1 ELSE 0)

C3_Witness ==
    \E p \in 1..Len(deltaLog) :
        /\ OpensCallWithIndexAndId(p)
        /\ Len(DeltasOf(Unwrap(deltaLog[p].delta.index), deltaLog[p].epoch)) >= 3
        /\ \E k \in EmittedFor(Unwrap(deltaLog[p].delta.index), deltaLog[p].epoch) :
              /\ emitted[k].item.call_id = "a"
              /\ Len(FunctionCallsSent) = 1

\* C4: the name of an accumulated call is the first non-empty name received for
\* its index; no later delta, with an empty or a different name, changes it.
C4_FirstNonEmptyNameWins ==
    /\ \A i \in DOMAIN tool_calls :
          tool_calls[i].name = FirstNonEmptyName(DeltasOf(i, epoch))
    /\ \A k \in 1..Len(emitted) :
          Some(emitted[k].item.name) =
              FirstNonEmptyName(DeltasOf(emitted[k].index, emitted[k].epoch))

C4_Witness ==
    \E i \in DOMAIN tool_calls :
        LET ds == DeltasOf(i, epoch)
        IN /\ Len(ds) = 3
           /\ NameSent(ds[1]) = "f" /\ NameSent(ds[2]) = "" /\ NameSent(ds[3]) = "g"
           /\ IsSome(ds[2].function) /\ IsSome(Unwrap(ds[2].function).name)
           /\ tool_calls[i].name = Some("f")

IsError(ev) == ev.type = "Error"
IsCompleted(ev) == ev.type = "Completed"
IsTerminal(ev) == IsError(ev) \/ IsCompleted(ev)

\* the calls that were in the table when flush `ep` ran
FlushedCalls == {<<deltaLog[q].resolved, deltaLog[q].epoch>> :
                    q \in {r \in 1..Len(deltaLog) : deltaLog[r].epoch < epoch}}

\* C5: at a flush (finish_reason stop or tool_calls) a call is sent as
\* ItemDone(FunctionCall) exactly when a non-empty name was received for it, also
\* when its arguments are empty; dropping a nameless call sends no Error and does
\* not end the stream.
C5_EmittedIffNamed ==
    /\ EmittedMatchesOut
    /\ \A c \in FlushedCalls :
          (EmittedFor(c[1], c[2]) # {}) <=> IsSome(FirstNonEmptyName(DeltasOf(c[1], c[2])))
    /\ \A k \in 1..Len(out) : ~IsError(out[k])
    /\ state # "Streaming" => (frames[Len(frames)].data \in Sentinels /\ state = "Completed")

C5_Witness ==
    /\ state = "Streaming"
    /\ \E c \in FlushedCalls : EmittedFor(c[1], c[2]) = {}
    /\ \E k \in 1..Len(emitted) :
          /\ emitted[k].item.arguments = ""
          /\ emitted[k].epoch = epoch - 1
          /\ \E c \in FlushedCalls : c[2] = epoch - 1 /\ EmittedFor(c[1], c[2]) = {}

---------------------------------------------------------------------------
\* What the history says about the frames and the events

LastFrame == frames[Len(frames)]
IsJson(frame) == frame.poll = "frame" /\ frame.data = "json" /\ IsSome(frame.json)
ChoicesOf(frame) ==
    IF IsJson(frame) /\ IsSome(Unwrap(frame.json).choices)
    THEN Unwrap(Unwrap(frame.json).choices) ELSE <<>>
HasFinish(frame, reason) ==
    \E k \in 1..Len(ChoicesOf(frame)) : ChoicesOf(frame)[k].finish_reason = Some(reason)
CarriesUsage(frame) == IsJson(frame) /\ IsSome(Unwrap(frame.json).usage)
\* the sentinel frame or the graceful end of the byte stream
EndsStream(frame) ==
    \/ frame.poll = "end"
    \/ (frame.poll = "frame" /\ frame.data \in Sentinels)

EvTag(ev) ==
    IF ev.type \in {"ItemAdded", "ItemDone"} THEN <<ev.type, ev.item.kind>> ELSE <<ev.type>>
TagsOf(evs) == [k \in 1..Len(evs) |-> EvTag(evs[k])]

\* the events one step added
NewEvents == SubSeq(out', Len(out) + 1, Len(out'))
Handled(frame) == frames' = Append(frames, frame)

\* the calls of the table that have a name, in tool_call_order
NamedInOrder ==
    LET named(i) == i \in DOMAIN tool_calls /\ IsSome(tool_calls[i].name)
    IN SelectSeq(tool_call_order, named)

\* what a frame that holds only finish_reason "stop" has to send, by kind
StopTags ==
    LET sp == content_splitter
        flush == IF sp.pending = <<>> THEN <<>>
                 ELSE IF sp.in_think_block
                      THEN (IF IsSome(reasoning_item) THEN <<>>
                            ELSE << <<"ItemAdded", "Reasoning">> >>) \o << <<"ReasoningDelta">> >>
                      ELSE (IF IsSome(assistant_item) THEN <<>>
                            ELSE << <<"ItemAdded", "Message">> >>) \o << <<"TextDelta">> >>
        reasoningOpen == IsSome(reasoning_item) \/ (sp.pending # <<>> /\ sp.in_think_block)
        assistantOpen == IsSome(assistant_item) \/ (sp.pending # <<>> /\ ~sp.in_think_block)
    IN flush
       \o (IF reasoningOpen THEN << <<"ItemDone", "Reasoning">> >> ELSE <<>>)
       \o (IF assistantOpen THEN << <<"ItemDone", "Message">> >> ELSE <<>>)
       \o [k \in 1..Len(NamedInOrder) |-> <<"ItemDone", "FunctionCall">>]

StopEmission ==
    LET new == NewEvents
        calls == SelectSeq(new, IsFunctionCallDone)
        texts == SelectSeq(new, LAMBDA ev : ev.type \in {"TextDelta", "ReasoningDelta"})
    IN /\ TagsOf(new) = StopTags
       /\ \A k \in 1..Len(texts) : texts[k].text = content_splitter.pending
       /\ [k \in 1..Len(calls) |-> calls[k].item.name]
             = [k \in 1..Len(NamedInOrder) |-> Unwrap(tool_calls[NamedInOrder[k]].name)]
       /\ state' = "Streaming"

\* C6: a choice with finish_reason "stop" sends, in this order, what the
\* splitter flushes, ItemDone for the open reasoning item, ItemDone for the open
\* assistant item, and ItemDone(FunctionCall) for every accumulated call that has
\* a name; the accumulated calls are not dropped.
C6_StopOrder == [][Handled(FinishFrame("stop")) => StopEmission]_vars

C6_Witness ==
    /\ Len(frames) = 2 /\ LastFrame = FinishFrame("stop")
    /\ Len(out) >= 4
    /\ TagsOf(SubSeq(out, Len(out) - 3, Len(out)))
          = << <<"TextDelta">>, <<"ItemDone", "Reasoning">>, <<"ItemDone", "Message">>,
               <<"ItemDone", "FunctionCall">> >>
    /\ out[Len(out) - 3].text = <<"<">>
    /\ out[Len(out)].item = FunctionCall("do_a", "{}", "a")

CompletedEvents == {k \in 1..Len(out) : IsCompleted(out[k])}

\* a frame with finish_reason "stop", then the last frame that carries usage,
\* holding both required fields, then the end of the stream
UsageAfterStop(j, m) ==
    /\ 1 <= j /\ j < m /\ m < Len(frames)
    /\ HasFinish(frames[j], "stop")
    /\ CarriesUsage(frames[m])
    /\ \A q \in (m + 1)..Len(frames) : ~CarriesUsage(frames[q])
    /\ {"prompt_tokens", "completion_tokens"} \subseteq DOMAIN Unwrap(Unwrap(frames[m].json).usage)
    /\ EndsStream(LastFrame)

\* C7: Completed is not sent while a finish_reason frame is handled, only when
\* the sentinel or the graceful end of the stream is observed; a usage object
\* that arrives after the "stop" frame and before the end is the one it carries.
C7_CompletedDeferred ==
    /\ CompletedEvents # {} => (frames # <<>> /\ EndsStream(LastFrame))
    /\ (frames # <<>> /\ EndsStream(LastFrame)) => CompletedEvents = {Len(out)}
    /\ \A j, m \in 1..Len(frames) :
          UsageAfterStop(j, m) =>
              LET u == Unwrap(Unwrap(frames[m].json).usage)
                  c == out[Len(out)]
              IN /\ IsCompleted(c) /\ IsSome(c.usage)
                 /\ Unwrap(c.usage).input_tokens = u["prompt_tokens"]
                 /\ Unwrap(c.usage).output_tokens = u["completion_tokens"]

C7_Witness ==
    /\ Len(frames) = 3
    /\ frames[1] = FinishFrame("stop")
    /\ frames[2] = UsageFrame([prompt_tokens |-> 42, completion_tokens |-> 10], Some(<<>>))
    /\ frames[3] = Raw("[DONE]")
    /\ out = <<Completed(Some([input_tokens |-> 42, cached_input_tokens |-> 0,
                               output_tokens |-> 10, reasoning_output_tokens |-> 0,
                               total_tokens |-> 52]))>>

TerminalEvents == {k \in 1..Len(out) : IsTerminal(out[k])}

\* C8: at most one terminal event (Completed or Error) is sent, it is the last
\* event, the channel is closed after it and the task handles nothing more.
C8_OneTerminalLast ==
    /\ Cardinality(TerminalEvents) <= 1
    /\ TerminalEvents \subseteq {Len(out)}
    /\ tx_closed <=> TerminalEvents # {}
    /\ tx_closed <=> state # "Streaming"
    /\ state = "Completed" <=> (out # <<>> /\ IsCompleted(out[Len(out)]))
    /\ state = "Failed" <=> (out # <<>> /\ IsError(out[Len(out)]))
    /\ tx_closed => ~ENABLED Next

C8_Witness ==
    /\ state = "Failed" /\ tx_closed
    /\ Len(frames) = 3 /\ LastFrame = Poll("timeout")
    /\ Len(out) = 5
    /\ out[5] = Error("Stream", "idle timeout waiting for SSE")

\* the first choice of the frame that has finish_reason "length"
FirstLength(frame) ==
    SetMin({k \in 1..Len(ChoicesOf(frame)) : ChoicesOf(frame)[k].finish_reason = Some("length")})
ContentTexts(choices) ==
    {Unwrap(Unwrap(Unwrap(choices[k].delta).content).str) :
        k \in {j \in 1..Len(choices) :
                  /\ IsSome(choices[j].delta)
                  /\ IsSome(Unwrap(choices[j].delta).content)
                  /\ IsSome(Unwrap(Unwrap(choices[j].delta).content).str)}}

LengthEmission(frame) ==
    LET new == NewEvents
        k == FirstLength(frame)
        choices == ChoicesOf(frame)
        unread == ContentTexts(SubSeq(choices, k + 1, Len(choices)))
                     \ ContentTexts(SubSeq(choices, 1, k))
    IN /\ new # <<>> /\ new[Len(new)] = Error("ContextWindowExceeded", "")
       /\ state' = "Failed" /\ tx_closed'
       /\ \A e \in 1..Len(new) : ~IsCompleted(new[e])
       \* the choices after it are not read
       /\ \A e \in 1..Len(new) : new[e].type = "TextDelta" => new[e].text \notin unread
       \* nothing that was open or pending is closed or sent
       /\ (\A j \in 1..(k - 1) : IsNone(choices[j].finish_reason)) =>
              /\ \A e \in 1..Len(new) : new[e].type # "ItemDone"
              /\ IsSome(assistant_item) => assistant_item' # None
              /\ IsSome(reasoning_item) => reasoning_item' # None
              /\ DOMAIN tool_calls \subseteq DOMAIN tool_calls'
              /\ Len(content_splitter.pending) <= Len(content_splitter'.pending)
                    \/ IsSome(choices[k].delta)
       \* a choice that holds nothing but the finish reason sends the error next
       /\ (k = 1 /\ IsNone(choices[k].delta) /\ IsNone(choices[k].message_reasoning)) =>
              new = <<Error("ContextWindowExceeded", "")>>

\* C9: a choice with finish_reason "length" makes Error(ContextWindowExceeded)
\* the next and last event: the rest of the frame and later frames are not
\* handled, no ItemDone is sent for open items or pending tool calls, no
\* Completed follows; alone in the stream it gives exactly that one event.
C9_LengthFails ==
    [][\A frame \in {frames'[Len(frames')]} :
          (Len(frames') = Len(frames) + 1 /\ HasFinish(frame, "length"))
              => /\ LengthEmission(frame)
                 /\ Len(frames') = 1 /\ frame = FinishFrame("length")
                       => out' = <<Error("ContextWindowExceeded", "")>>]_vars

C9_Witness ==
    /\ Len(frames) = 2 /\ LastFrame = FinishFrame("length")
    /\ IsSome(assistant_item) /\ IsSome(reasoning_item)
    /\ DOMAIN tool_calls # {}
    /\ content_splitter.pending # <<>>
    /\ state = "Failed"
    /\ out[Len(out)] = Error("ContextWindowExceeded", "")
    /\ \A k \in 1..Len(out) : out[k].type # "ItemDone"

\* C10: when no frame carried a top-level usage object Completed has usage
\* None; a stream that is only the sentinel gives exactly [Completed(usage=None)].
C10_NoUsageIsNone ==
    /\ (state = "Completed" /\ \A k \in 1..Len(frames) : ~CarriesUsage(frames[k]))
          => out[Len(out)] = Completed(None)
    /\ (Len(frames) = 1 /\ frames[1] \in {Raw("[DONE]"), Raw("DONE")})
          => out = <<Completed(None)>>

C10_Witness ==
    /\ frames = <<Raw("[DONE]")>>
    /\ out = <<Completed(None)>>
    /\ state = "Completed"

---------------------------------------------------------------------------
\* The ways a stream ends, and the frames that are skipped

EndInputs == {Raw("[DONE]"), Raw("DONE"), Poll("end")}

AppendTo(content, text) ==
    IF content = <<>> THEN <<text>> ELSE [content EXCEPT ![Len(content)] = @ \o text]
ItemContent(item) == IF IsSome(item) THEN Unwrap(item).content ELSE <<>>

\* what the splitter's remainder adds to the output, then the ItemDone of the
\* reasoning item, then (when closeAssistant) the ItemDone of the assistant item
FlushAndClose(closeAssistant) ==
    LET pend == content_splitter.pending
        toR == pend # <<>> /\ content_splitter.in_think_block
        toA == pend # <<>> /\ ~content_splitter.in_think_block
        rc == ItemContent(reasoning_item)
        ac == ItemContent(assistant_item)
        flush == IF toR
                 THEN (IF IsSome(reasoning_item) THEN <<>>
                       ELSE <<ItemAdded(ReasoningItem(<<>>))>>)
                      \o <<ReasoningDelta(pend, IF rc = <<>> THEN 0 ELSE Len(rc) - 1)>>
                 ELSE IF toA
                 THEN (IF IsSome(assistant_item) THEN <<>>
                       ELSE <<ItemAdded(MessageItem(<<>>))>>)
                      \o <<TextDelta(pend)>>
                 ELSE <<>>
        rdone == IF IsSome(reasoning_item) \/ toR
                 THEN <<ItemDone(ReasoningItem(IF toR THEN AppendTo(rc, pend) ELSE rc))>>
                 ELSE <<>>
        adone == IF closeAssistant /\ (IsSome(assistant_item) \/ toA)
                 THEN <<ItemDone(MessageItem(IF toA THEN AppendTo(ac, pend) ELSE ac))>>
                 ELSE <<>>
    IN flush \o rdone \o adone

OutExtendedBy(evs) == out' = out \o evs

\* C11: a frame whose payload is "[DONE]", a frame whose payload is "DONE" and
\* the graceful end of the byte stream give the same events in every state: the
\* splitter's remainder, ItemDone for the open reasoning item, ItemDone for the
\* open assistant item, then Completed with the stored usage.
C11_EndingsAgree ==
    [][\A f \in EndInputs :
          Handled(f) =>
             /\ OutExtendedBy(FlushAndClose(TRUE) \o <<Completed(token_usage)>>)
             /\ state' = "Completed"
             /\ \A g \in EndInputs : out' = HandlePoll(Cur, g).out]_vars

C11_Witness ==
    /\ Len(frames) = 3 /\ LastFrame = Raw("DONE")
    /\ Len(out) >= 4
    /\ TagsOf(SubSeq(out, Len(out) - 3, Len(out)))
          = << <<"TextDelta">>, <<"ItemDone", "Reasoning">>, <<"ItemDone", "Message">>,
               <<"Completed">> >>
    /\ out[Len(out) - 3].text = <<"<">>
    /\ IsSome(out[Len(out)].usage)

\* a payload that is blank, that is no JSON, or JSON without a choices array
IsSkipped(frame) ==
    /\ frame.poll = "frame"
    /\ \/ frame.data = ""
       \/ (~IsSentinel(frame.data) /\ IsNone(frame.json))
       \/ (IsJson(frame) /\ IsNone(Unwrap(frame.json).choices))

UsageRecord(u) ==
    IF {"prompt_tokens", "completion_tokens"} \subseteq DOMAIN u
    THEN Some([input_tokens |-> u["prompt_tokens"],
               cached_input_tokens |-> IF "cached_tokens" \in DOMAIN u THEN u["cached_tokens"] ELSE 0,
               output_tokens |-> u["completion_tokens"],
               reasoning_output_tokens |->
                   IF "reasoning_tokens" \in DOMAIN u THEN u["reasoning_tokens"] ELSE 0,
               total_tokens |-> IF "total_tokens" \in DOMAIN u THEN u["total_tokens"]
                                ELSE u["prompt_tokens"] + u["completion_tokens"]])
    ELSE None

\* C12: a frame that is blank, unparsable or without a choices array sends
\* nothing, leaves the stream open and changes nothing of the turn (items,
\* splitter, tool-call table, order, id map), except that the usage object of a
\* parsed frame replaces the stored usage.
C12_SkippedFrames ==
    [][\A frame \in {frames'[Len(frames')]} :
          (Len(frames') = Len(frames) + 1 /\ IsSkipped(frame)) =>
             /\ out' = out
             /\ state' = "Streaming" /\ ~tx_closed'
             /\ UNCHANGED <<assistant_item, reasoning_item, content_splitter, tool_calls,
                            tool_call_order, tool_call_order_seen, tool_call_index_by_id,
                            next_tool_call_index, last_tool_call_index>>
             /\ token_usage' = IF CarriesUsage(frame)
                               THEN UsageRecord(Unwrap(Unwrap(frame.json).usage))
                               ELSE token_usage]_vars

C12_Witness ==
    /\ Len(frames) = 3
    /\ frames[2] = UsageFrame([prompt_tokens |-> 42, completion_tokens |-> 10], None)
    /\ frames[3] = ContentFrame(<<"a">>)
    /\ state = "Streaming"
    /\ token_usage = Some([input_tokens |-> 42, cached_input_tokens |-> 0,
                           output_tokens |-> 10, reasoning_output_tokens |-> 0,
                           total_tokens |-> 52])
    /\ IsSome(assistant_item) /\ Unwrap(assistant_item).content = << <<"c", "<", "a">> >>
    /\ DOMAIN tool_calls = {0}

\* C13: the idle timeout and a transport error each send one Error and nothing
\* else: open items get no ItemDone, the splitter's pending text and the
\* accumulated tool calls are not sent, no Completed is sent, and the task ends.
C13_FailureSendsOnlyError ==
    [][/\ Handled(Poll("timeout")) =>
             OutExtendedBy(<<Error("Stream", "idle timeout waiting for SSE")>>)
       /\ Handled(Poll("error")) => OutExtendedBy(<<Error("Stream", "transport error")>>)
       /\ (Handled(Poll("timeout")) \/ Handled(Poll("error"))) =>
             /\ state' = "Failed" /\ tx_closed'
             /\ UNCHANGED <<assistant_item, reasoning_item, content_splitter, tool_calls,
                            tool_call_order, token_usage>>]_vars

C13_Witness ==
    /\ Len(frames) = 2 /\ LastFrame = Poll("error")
    /\ IsSome(assistant_item) /\ IsSome(reasoning_item)
    /\ content_splitter.pending # <<>>
    /\ DOMAIN tool_calls # {}
    /\ state = "Failed"
    /\ out[Len(out)] = Error("Stream", "transport error")
    /\ \A k \in 1..Len(out) : out[k].type \notin {"ItemDone", "Completed"}

---------------------------------------------------------------------------
\* The items that are open along the output

KindOfDelta(ev) ==
    IF ev.type = "TextDelta" THEN "Message"
    ELSE IF ev.type = "ReasoningDelta" THEN "Reasoning" ELSE "none"

\* the number of items of a kind that are open after the first k events
HasItem(ev) == ev.type \in {"ItemAdded", "ItemDone"}

OpenCount(kind, k) ==
    Cardinality({j \in 1..k : out[j].type = "ItemAdded" /\ out[j].item.kind = kind})
    - Cardinality({j \in 1..k : out[j].type = "ItemDone" /\ out[j].item.kind = kind})

\* C14: along the output at most one assistant item and one reasoning item is
\* open: ItemAdded comes only when no item of its kind is open, every delta
\* comes while the item of its kind is open, ItemDone closes an open item, and
\* the task holds an item exactly while one is open.
C14_OneOpenItemPerKind ==
    /\ \A k \in 1..Len(out) :
          /\ (HasItem(out[k]) /\ out[k].item.kind \in {"Message", "Reasoning"}) =>
                 OpenCount(out[k].item.kind, k - 1)
                     = (IF out[k].type = "ItemAdded" THEN 0 ELSE 1)
          /\ KindOfDelta(out[k]) # "none" => OpenCount(KindOfDelta(out[k]), k) = 1
    /\ IsSome(assistant_item) <=> OpenCount("Message", Len(out)) = 1
    /\ IsSome(reasoning_item) <=> OpenCount("Reasoning", Len(out)) = 1

C14_Witness ==
    /\ Cardinality({j \in 1..Len(out) : out[j] = ItemAdded(MessageItem(<<>>))}) = 2
    /\ OpenCount("Message", Len(out)) = 1
    /\ OpenCount("Reasoning", Len(out)) = 1

\* the ItemDone(FunctionCall) events of the named calls of the table, in tool_call_order
ExpectedCalls ==
    [k \in 1..Len(NamedInOrder) |->
        LET i == NamedInOrder[k]
        IN ItemDone(FunctionCall(Unwrap(tool_calls[i].name), tool_calls[i].arguments,
                                 IF IsSome(tool_calls[i].id) THEN Unwrap(tool_calls[i].id)
                                 ELSE FallbackCallId(i)))]

\* the text of the TextDelta events between positions a and k of the output
TextBetween(evs, a, k) ==
    Flatten([j \in 1..(k - a - 1) |->
                IF evs[a + j].type = "TextDelta" THEN evs[a + j].text ELSE <<>>])

\* every closed assistant item holds all the text sent since it was opened
MessageHoldsItsDeltas(evs) ==
    \A k \in 1..Len(evs) :
        (evs[k].type = "ItemDone" /\ evs[k].item.kind = "Message") =>
            LET a == SetMax({j \in 1..(k - 1) : evs[j] = ItemAdded(MessageItem(<<>>))})
            IN evs[k].item.content = << TextBetween(evs, a, k) >>

\* C15: a choice with finish_reason "tool_calls" sends the splitter's remainder,
\* ItemDone for the open reasoning item and ItemDone(FunctionCall) for every
\* named call, and leaves the assistant item open; text that comes later goes
\* to that same item, whose ItemDone is sent only by a later "stop" or by the
\* end of the stream, after the FunctionCall items.
C15_ToolCallsKeepsAssistantOpen ==
    [][/\ Handled(FinishFrame("tool_calls")) =>
             /\ OutExtendedBy(FlushAndClose(FALSE) \o ExpectedCalls)
             /\ state' = "Streaming"
             /\ (IsSome(assistant_item)
                    \/ (content_splitter.pending # <<>> /\ ~content_splitter.in_think_block))
                  => IsSome(assistant_item')
             /\ IsSome(assistant_item) =>
                   Unwrap(assistant_item').content[1]
                       = Unwrap(assistant_item).content[1]
                            \o (IF content_splitter.in_think_block THEN <<>>
                                ELSE content_splitter.pending)
       /\ (\E e \in 1..Len(NewEvents) :
              NewEvents[e].type = "ItemDone" /\ NewEvents[e].item.kind = "Message")
            => (HasFinish(frames'[Len(frames')], "stop") \/ EndsStream(frames'[Len(frames')]))
       /\ MessageHoldsItsDeltas(out')]_vars

C15_Witness ==
    /\ Len(frames) = 3
    /\ frames[2] = FinishFrame("tool_calls") /\ frames[3] = FinishFrame("stop")
    /\ Len(out) >= 4
    /\ TagsOf(SubSeq(out, Len(out) - 3, Len(out)))
          = << <<"TextDelta">>, <<"ItemDone", "Reasoning">>, <<"ItemDone", "FunctionCall">>,
               <<"ItemDone", "Message">> >>
    /\ out[Len(out)].item.content = << <<"c", "<">> >>
    /\ Cardinality({j \in 1..Len(out) : out[j] = ItemAdded(MessageItem(<<>>))}) = 1

\* the position of the first delta merged at `index` in flush period `ep`
FirstSeen(index, ep) ==
    SetMin({q \in 1..Len(deltaLog) : deltaLog[q].resolved = index /\ deltaLog[q].epoch = ep})

\* C16: the accumulated calls are sent in the order in which their indices were
\* first seen, not by ascending index: a call first seen earlier is sent earlier,
\* and tool_call_order lists the indices of the table in first-seen order.
C16_FirstSeenOrder ==
    /\ EmittedMatchesOut
    /\ \A k, l \in 1..Len(emitted) :
          k < l =>
             /\ emitted[k].epoch <= emitted[l].epoch
             /\ emitted[k].epoch = emitted[l].epoch =>
                   FirstSeen(emitted[k].index, emitted[k].epoch)
                       < FirstSeen(emitted[l].index, emitted[l].epoch)
    /\ \A a, b \in 1..Len(tool_call_order) :
          a < b => FirstSeen(tool_call_order[a], epoch) < FirstSeen(tool_call_order[b], epoch)
    /\ {tool_call_order[a] : a \in 1..Len(tool_call_order)} = DOMAIN tool_calls

C16_Witness ==
    \E k \in 1..Len(emitted) :
        /\ k < Len(emitted)
        /\ emitted[k].epoch = emitted[k + 1].epoch
        /\ emitted[k].index = 1 /\ emitted[k + 1].index = 0
        /\ FunctionCallsSent[k].item.name = "g" /\ FunctionCallsSent[k + 1].item.name = "f"

---------------------------------------------------------------------------
\* Content under the Standard format

HasReasoningField(frame) ==
    \E k \in 1..Len(ChoicesOf(frame)) :
        \/ IsSome(ChoicesOf(frame)[k].message_reasoning)
        \/ (IsSome(ChoicesOf(frame)[k].delta)
              /\ IsSome(Unwrap(ChoicesOf(frame)[k].delta).reasoning))

HasContentField(frame) ==
    \E k \in 1..Len(ChoicesOf(frame)) :
        /\ IsSome(ChoicesOf(frame)[k].delta)
        /\ IsSome(Unwrap(ChoicesOf(frame)[k].delta).content)

\* texts with whole tags, pieces of tags and whole blocks
PassthroughTexts == (ContentChunks \cup {TextOf(p) : p \in PartsOfBlocks(1)}) \ {<<>>}

\* C17: under the Standard format split_chunk returns a non-empty text
\* unchanged as one Assistant segment and holds nothing back: the pending buffer
\* stays empty, flush_remaining returns nothing, a content text is sent verbatim
\* as one TextDelta, tags included, and content gives no reasoning event.
C17_StandardPassthrough ==
    [][content_splitter.format = "Standard" =>
          /\ content_splitter' = NewSplitter("Standard")
          /\ flush_remaining(content_splitter').segments = <<>>
          /\ \A text \in PassthroughTexts :
                split_chunk(content_splitter, text)
                    = [sp |-> content_splitter, segments |-> <<Assistant(text)>>]
          /\ \A text \in ContentChunks :
                Handled(ContentFrame(text)) =>
                    OutExtendedBy((IF IsSome(assistant_item) THEN <<>>
                                   ELSE <<ItemAdded(MessageItem(<<>>))>>)
                                  \o <<TextDelta(text)>>)
          /\ \A frame \in {frames'[Len(frames')]} :
                Len(frames') = Len(frames) + 1 =>
                   /\ ~HasReasoningField(frame) =>
                         /\ \A e \in 1..Len(NewEvents) :
                               /\ NewEvents[e].type # "ReasoningDelta"
                               /\ NewEvents[e].type = "ItemAdded" =>
                                      NewEvents[e].item.kind # "Reasoning"
                         /\ IsNone(reasoning_item) => IsNone(reasoning_item')
                   /\ ~HasContentField(frame) =>
                         \A e \in 1..Len(NewEvents) : NewEvents[e].type # "TextDelta"]_vars

C17_Witness ==
    /\ content_splitter.format = "Standard"
    /\ frames = <<ContentFrame(OPEN_TAG \o <<"r">>), ContentFrame(CLOSE_TAG \o <<"b">>),
                  FinishFrame("stop")>>
    /\ out = <<ItemAdded(MessageItem(<<>>)), TextDelta(OPEN_TAG \o <<"r">>),
               TextDelta(CLOSE_TAG \o <<"b">>),
               ItemDone(MessageItem(<<OPEN_TAG \o <<"r">> \o CLOSE_TAG \o <<"b">>>>))>>

---------------------------------------------------------------------------
\* Content with think blocks through the router: a text is cut into content
\* deltas, one per frame, and followed by finish_reason "stop"

ContentParts == PartsOfBlocks(0) \cup PartsOfBlocks(1)

InitContent ==
    /\ InitRouter
    /\ content_splitter = NewSplitter("MinimaxThinkTags")
    /\ src_parts \in ContentParts
    /\ rest = TextOf(src_parts)
    /\ asst_cat = <<>>
    /\ reas_cat = <<>>
    /\ ret = <<>>
    /\ flushes = 0
    /\ midtag = FALSE

\* the next n characters arrive as delta.content, a string
FeedContent ==
    /\ state = "Streaming"
    /\ Len(frames) < MaxChunks
    /\ \E n \in 1..Len(rest) :
          /\ Commit(HandlePoll(Cur, ContentFrame(SubSeq(rest, 1, n))))
          /\ frames' = Append(frames, ContentFrame(SubSeq(rest, 1, n)))
          /\ rest' = SubSeq(rest, n + 1, Len(rest))
          /\ midtag' = (midtag \/ (Len(TextOf(src_parts)) - Len(rest) + n)
                                      \in TagInteriors(src_parts, 0))
    /\ UNCHANGED <<setupVars, src_parts, asst_cat, reas_cat, ret, flushes, channelVars>>

\* what is left arrives as delta.content, an array: a text, an item that holds
\* no text, a text
FeedContentItems ==
    /\ state = "Streaming"
    /\ Len(frames) < MaxChunks
    /\ \E n \in 1..(Len(rest) - 1) :
          LET items == <<Some(SubSeq(rest, 1, n)), None, Some(SubSeq(rest, n + 1, Len(rest)))>>
              frame == Json(None, Some(<<Choice(Some(Delta(None, Some(Items(items)), None)),
                                               None, None)>>))
          IN /\ Commit(HandlePoll(Cur, frame))
             /\ frames' = Append(frames, frame)
             /\ rest' = <<>>
             /\ midtag' = (midtag \/ (Len(TextOf(src_parts)) - Len(rest) + n)
                                         \in TagInteriors(src_parts, 0))
    /\ UNCHANGED <<setupVars, src_parts, asst_cat, reas_cat, ret, flushes, channelVars>>

\* the whole text was sent: the choice with finish_reason "stop"
FinishContent ==
    /\ rest = <<>>
    /\ \A k \in 1..Len(frames) : frames[k] # FinishFrame("stop")
    /\ Step(FinishFrame("stop"))

NextContent == FeedContent \/ FeedContentItems \/ FinishContent

SpecContent == InitContent /\ [][NextContent]_vars

DeltaTexts(type) ==
    Flatten([k \in 1..Len(out) |-> IF out[k].type = type THEN out[k].text ELSE <<>>])

\* the items of a kind that were closed
DoneItems(kind) ==
    {out[k].item : k \in {j \in 1..Len(out) : out[j].type = "ItemDone" /\ out[j].item.kind = kind}}

\* C18: in MinimaxThinkTags mode, for a content text cut into deltas over any
\* frames and followed by finish_reason "stop", the TextDelta events concatenate
\* to the text outside the think tags and the ReasoningDelta events to the text
\* inside them, and each text ends in the item of its own kind.
C18_RouterSplitsContent ==
    /\ IsPrefix(DeltaTexts("TextDelta"), OutsideOf(src_parts))
    /\ IsPrefix(DeltaTexts("ReasoningDelta"), InsideOf(src_parts))
    /\ (frames # <<>> /\ LastFrame = FinishFrame("stop")) =>
          /\ DeltaTexts("TextDelta") = OutsideOf(src_parts)
          /\ DeltaTexts("ReasoningDelta") = InsideOf(src_parts)
          /\ DoneItems("Message") = IF OutsideOf(src_parts) = <<>> THEN {}
                                    ELSE {MessageItem(<<OutsideOf(src_parts)>>)}
          /\ DoneItems("Reasoning") = IF InsideOf(src_parts) = <<>> THEN {}
                                      ELSE {ReasoningItem(<<InsideOf(src_parts)>>)}

C18_Witness ==
    /\ Len(frames) = 4 /\ LastFrame = FinishFrame("stop")
    /\ midtag
    /\ src_parts = << <<"<", "t", "h">>, <<"<", "/", "t">>, <<"a">> >>
    /\ DeltaTexts("TextDelta") = <<"<", "t", "h", "a">>
    /\ DeltaTexts("ReasoningDelta") = <<"<", "/", "t">>
    /\ DoneItems("Reasoning") = {ReasoningItem(<< <<"<", "/", "t">> >>)}

---------------------------------------------------------------------------
\* The splitter flushed at any point of the text, twice in a row

FlushNow ==
    /\ flushes < 2
    /\ Returned(flush_remaining(content_splitter))
    /\ flushes' = flushes + 1
    /\ UNCHANGED <<setupVars, routerVars, src_parts, rest, midtag>>

NextFlush == SplitChunk \/ FlushNow

SpecFlush == InitSplit /\ [][NextFlush]_vars

\* C19: flush_remaining returns the pending text as one segment, Reasoning
\* inside an unclosed block and Assistant otherwise, and empties the buffer; a
\* second call right after the first returns no segment and changes nothing.
C19_FlushIdempotent ==
    [][flushes' = flushes + 1 =>
          /\ ret' = IF content_splitter.pending = <<>> THEN <<>>
                    ELSE <<[kind |-> IF content_splitter.in_think_block
                                     THEN "Reasoning" ELSE "Assistant",
                            text |-> content_splitter.pending]>>
          /\ content_splitter' = [content_splitter EXCEPT !.pending = <<>>]
          /\ flushes = 1 => (ret' = <<>> /\ content_splitter' = content_splitter)]_vars

C19_Witness ==
    /\ flushes = 2
    /\ content_splitter.in_think_block /\ content_splitter.pending = <<>>
    /\ Len(src_parts) = 3 /\ src_parts[2] = <<"<", "/", "t">>
    /\ rest = CLOSE_TAG \o src_parts[3]
    /\ reas_cat = <<"<", "/", "t">>
    /\ ret = <<>>

---------------------------------------------------------------------------
\* Usage over several frames

UsageFrames == {k \in 1..Len(frames) : CarriesUsage(frames[k])}
UsageOf(frame) == Unwrap(Unwrap(frame.json).usage)
IsValidUsage(u) == {"prompt_tokens", "completion_tokens"} \subseteq DOMAIN u

\* C20: the stored usage is overwritten, not merged: when several frames carry
\* a valid usage object, the stored usage, and the usage of Completed, is the
\* record of the last of them alone; no field is added to or kept from an
\* earlier record.
C20_UsageOverwritten ==
    (/\ Cardinality(UsageFrames) >= 2
     /\ \A k \in UsageFrames : IsValidUsage(UsageOf(frames[k])))
    => LET last == UsageRecord(UsageOf(frames[SetMax(UsageFrames)]))
       IN /\ state = "Streaming" => token_usage = last
          /\ state = "Completed" => out[Len(out)] = Completed(last)

C20_Witness ==
    /\ Len(frames) = 3
    /\ frames[1] = UsageFrame([prompt_tokens |-> 10, completion_tokens |-> 20,
                               total_tokens |-> 30, reasoning_tokens |-> 5,
                               cached_tokens |-> 2], None)
    /\ frames[2] = UsageFrame([prompt_tokens |-> 42, completion_tokens |-> 10], Some(<<>>))
    /\ frames[3] = Poll("end")
    /\ out = <<Completed(Some([input_tokens |-> 42, cached_input_tokens |-> 0,
                               output_tokens |-> 10, reasoning_output_tokens |-> 0,
                               total_tokens |-> 52]))>>

---------------------------------------------------------------------------
\* The usage extractor on every usage object: each of the five integer fields
\* absent (or no integer) or holding one of two values

UsageFields ==
    {"prompt_tokens", "completion_tokens", "total_tokens", "reasoning_tokens", "cached_tokens"}
UsageNumbers == {10, 42}
UsageObjects == UNION {[F -> UsageNumbers] : F \in SUBSET UsageFields}

RecvUsageObject ==
    \E u \in UsageObjects :
        /\ Len(frames) < MaxUsageFrames
        /\ Step(UsageFrame(u, None))

EndAfterUsage == Step(Poll("end"))

NextUsage == RecvUsageObject \/ EndAfterUsage

SpecUsage == Init /\ [][NextUsage]_vars

\* C21: the usage extractor gives no usage when prompt_tokens or
\* completion_tokens is absent; otherwise total_tokens is the given total or,
\* without one, prompt_tokens + completion_tokens (42 and 10 give 52),
\* reasoning_output_tokens is completion_tokens_details.reasoning_tokens or 0 and
\* cached_input_tokens is prompt_tokens_details.cached_tokens or 0.
C21_UsageExtractor ==
    (frames # <<>> /\ CarriesUsage(LastFrame)) =>
        LET u == UsageOf(LastFrame)
            has(f) == f \in DOMAIN u
        IN /\ (~has("prompt_tokens") \/ ~has("completion_tokens")) => token_usage = None
           /\ (has("prompt_tokens") /\ has("completion_tokens")) =>
                 /\ IsSome(token_usage)
                 /\ Unwrap(token_usage).input_tokens = u["prompt_tokens"]
                 /\ Unwrap(token_usage).output_tokens = u["completion_tokens"]
                 /\ Unwrap(token_usage).total_tokens =
                       (IF has("total_tokens") THEN u["total_tokens"]
                        ELSE u["prompt_tokens"] + u["completion_tokens"])
                 /\ Unwrap(token_usage).reasoning_output_tokens =
                       (IF has("reasoning_tokens") THEN u["reasoning_tokens"] ELSE 0)
                 /\ Unwrap(token_usage).cached_input_tokens =
                       (IF has("cached_tokens") THEN u["cached_tokens"] ELSE 0)
           /\ u = [prompt_tokens |-> 42, completion_tokens |-> 10] =>
                 Unwrap(token_usage).total_tokens = 52

C21_Witness ==
    /\ frames = <<UsageFrame([prompt_tokens |-> 42, completion_tokens |-> 10], None)>>
    /\ token_usage = Some([input_tokens |-> 42, cached_input_tokens |-> 0,
                           output_tokens |-> 10, reasoning_output_tokens |-> 0,
                           total_tokens |-> 52])

---------------------------------------------------------------------------
\* Usage objects that yield no record

\* the frames whose usage object yields a record
RecordFrames == {k \in UsageFrames : IsValidUsage(UsageOf(frames[k]))}

\* C22: Completed carries the last known usage: a usage object that lacks
\* prompt_tokens or completion_tokens, or is null, gives no usage for its frame
\* only and does not erase the record of an earlier frame, so once a frame has
\* produced a record the stored usage, and the usage of Completed, is the most
\* recent record.
C22_LastKnownUsageKept ==
    RecordFrames # {} =>
        LET last == UsageRecord(UsageOf(frames[SetMax(RecordFrames)]))
        IN /\ state = "Streaming" => token_usage = last
           /\ state = "Completed" => out[Len(out)] = Completed(last)

---------------------------------------------------------------------------
\* The task and its consumer on the two ends of the bounded channel.  A handler
\* sends its events one by one; each send waits for room and fails at once
\* when the receiver is gone, and its result is ignored (`let _ = ...`)

ChannelInputs ==
    { Json(None, Some(<<Choice(Some(Delta(Some(Str(<<"p">>)), Some(Str(<<"c", "<">>)),
                                         Some(<<ToolCall(Some(0), Some("a"),
                                                         Func(Some("do_a"), Some("{}")))>>))),
                            None, None)>>)),
      ContentFrame(<<"a">>), FinishFrame("stop"),
      Raw("[DONE]"), Poll("end"), Poll("error"), Poll("timeout") }

InitChannel ==
    /\ InitRouter
    /\ content_splitter = NewSplitter("MinimaxThinkTags")
    /\ InitHarness

\* the next poll of the loop: the sends of the handler before it are done
ChanFrame ==
    \E input \in ChannelInputs :
        /\ sends_done = Len(out)
        /\ Len(frames) < MaxFrames
        /\ Step(input)

\* faulty variant: an event that finds the channel full is dropped (try_send)
ProducerSend_DropsWhenFull ==
    /\ sends_done < Len(out)
    /\ sends_done' = sends_done + 1
    /\ chan' = IF rx_dropped \/ Len(chan) >= ChannelCapacity THEN chan
               ELSE Append(chan, out[sends_done + 1])
    /\ UNCHANGED <<setupVars, tool_calls, tool_call_order, tool_call_order_seen,
                   tool_call_index_by_id,
                   next_tool_call_index, last_tool_call_index, assistant_item,
                   reasoning_item, token_usage, out, state, tx_closed, frames, deltaLog,
                   emitted, epoch, received, rx_dropped, rx_ended, content_splitter, harnessVars>>

\* faulty variant: a send waits for room also when the receiver is gone
ProducerSend_WaitsOnClosed ==
    /\ sends_done < Len(out)
    /\ ~rx_dropped /\ Len(chan) < ChannelCapacity
    /\ sends_done' = sends_done + 1
    /\ chan' = Append(chan, out[sends_done + 1])
    /\ UNCHANGED <<setupVars, tool_calls, tool_call_order, tool_call_order_seen,
                   tool_call_index_by_id,
                   next_tool_call_index, last_tool_call_index, assistant_item,
                   reasoning_item, token_usage, out, state, tx_closed, frames, deltaLog,
                   emitted, epoch, received, rx_dropped, rx_ended, content_splitter, harnessVars>>

\* `let _ = tx_event.send(ev).await`: completes when there is room, or with an
\* error that is ignored when the receiver was dropped
ProducerSend ==
    /\ sends_done < Len(out)
    /\ rx_dropped \/ Len(chan) < ChannelCapacity
    /\ sends_done' = sends_done + 1
    /\ chan' = IF rx_dropped THEN chan ELSE Append(chan, out[sends_done + 1])
    /\ UNCHANGED <<setupVars, tool_calls, tool_call_order, tool_call_order_seen,
                   tool_call_index_by_id,
                   next_tool_call_index, last_tool_call_index, assistant_item,
                   reasoning_item, token_usage, out, state, tx_closed, frames, deltaLog,
                   emitted, epoch, received, rx_dropped, rx_ended, content_splitter, harnessVars>>

\* faulty variant: recv takes the newest event in the channel
ConsumerRecv_TakesNewest ==
    /\ ~rx_dropped
    /\ chan # <<>>
    /\ received' = Append(received, chan[Len(chan)])
    /\ chan' = SubSeq(chan, 1, Len(chan) - 1)
    /\ UNCHANGED <<setupVars, tool_calls, tool_call_order, tool_call_order_seen,
                   tool_call_index_by_id,
                   next_tool_call_index, last_tool_call_index, assistant_item,
                   reasoning_item, token_usage, out, state, tx_closed, frames, deltaLog,
                   emitted, epoch, sends_done, rx_dropped, rx_ended, content_splitter,
                   harnessVars>>

\* rx_event.recv().await returning an event
ConsumerRecv ==
    /\ ~rx_dropped
    /\ chan # <<>>
    /\ received' = Append(received, Head(chan))
    /\ chan' = Tail(chan)
    /\ UNCHANGED <<setupVars, tool_calls, tool_call_order, tool_call_order_seen,
                   tool_call_index_by_id,
                   next_tool_call_index, last_tool_call_index, assistant_item,
                   reasoning_item, token_usage, out, state, tx_closed, frames, deltaLog,
                   emitted, epoch, sends_done, rx_dropped, rx_ended, content_splitter, harnessVars>>

\* the consumer drops the ResponseStream: what is in the channel is discarded
ConsumerDrop ==
    /\ ~rx_dropped
    /\ rx_dropped' = TRUE
    /\ chan' = <<>>
    /\ UNCHANGED <<setupVars, tool_calls, tool_call_order, tool_call_order_seen,
                   tool_call_index_by_id,
                   next_tool_call_index, last_tool_call_index, assistant_item,
                   reasoning_item, token_usage, out, state, tx_closed, frames, deltaLog,
                   emitted, epoch, sends_done, received, rx_ended, content_splitter,
                   harnessVars>>

NextChannel == ChanFrame \/ ProducerSend \/ ConsumerRecv \/ ConsumerDrop

SpecChannel == InitChannel /\ [][NextChannel]_vars

\* the task is scheduled until it returns
SpecChannelFair == SpecChannel /\ WF_vars(ProducerSend)

\* C23: for every interleaving of the task and its consumer, what the consumer
\* took followed by what is in the channel is what the task has sent, in order,
\* nothing lost and nothing twice; a full channel holds the task at its send
\* until the consumer takes an event, and once the task is through and the
\* channel drained the consumer has every event.
C23_ChannelKeepsOrder ==
    /\ Len(chan) <= ChannelCapacity
    /\ sends_done <= Len(out)
    /\ ~rx_dropped =>
          /\ received \o chan = SubSeq(out, 1, sends_done)
          /\ (Len(chan) = ChannelCapacity /\ sends_done < Len(out)) =>
                (~ENABLED ProducerSend /\ ~ENABLED ChanFrame /\ ENABLED ConsumerRecv)
          /\ (state # "Streaming" /\ sends_done = Len(out) /\ chan = <<>>) => received = out

C23_Witness ==
    /\ ~rx_dropped
    /\ Len(chan) = ChannelCapacity
    /\ sends_done < Len(out)
    /\ received # <<>>
    /\ received \o chan = SubSeq(out, 1, sends_done)

\* C24: once the consumer has dropped the receiver every send of the task
\* completes without effect: the task is never held at a send, goes on to
\* handle the frames that follow, and returns when it has handled the sentinel,
\* the end of the stream, an error or the idle timeout.
C24_DroppedReceiver ==
    /\ [](rx_dropped =>
             /\ chan = <<>>
             /\ sends_done < Len(out) => ENABLED ProducerSend
             /\ (sends_done = Len(out) /\ state = "Streaming" /\ Len(frames) < MaxFrames)
                   => ENABLED ChanFrame
             /\ state \in {"Streaming", "Completed", "Failed"})
    /\ [][rx_dropped => (rx_dropped' /\ received' = received)]_vars
    /\ rx_dropped ~> (sends_done = Len(out))
    /\ (rx_dropped /\ state # "Streaming") ~> [](sends_done = Len(out) /\ tx_closed)

C24_Witness ==
    /\ rx_dropped
    /\ state = "Completed" /\ tx_closed
    /\ sends_done = Len(out)
    /\ Len(received) = 1
    /\ Len(out) >= 6

---------------------------------------------------------------------------
\* What a closed item holds

DeltaTypeOf(kind) == IF kind = "Message" THEN "TextDelta" ELSE "ReasoningDelta"

\* the ItemDone events of the assistant and reasoning items
ClosedItems ==
    {k \in 1..Len(out) : out[k].type = "ItemDone" /\ out[k].item.kind \in {"Message", "Reasoning"}}

\* the position of the ItemAdded that opened the item closed at k
OpenedAt(k) ==
    SetMax({j \in 1..(k - 1) : out[j].type = "ItemAdded" /\ out[j].item.kind = out[k].item.kind})

\* the deltas of the item closed at k, in order
DeltasBetween(k) ==
    LET a == OpenedAt(k)
        mine(ev) == ev.type = DeltaTypeOf(out[k].item.kind)
    IN SelectSeq(SubSeq(out, a + 1, k - 1), mine)

\* C25: the item of ItemDone for an assistant message, and for a reasoning
\* item, holds exactly one text part, the concatenation in order of the
\* TextDelta (ReasoningDelta) events sent between its ItemAdded and its
\* ItemDone; text that came in several chunks is in that one part.
C25_ItemHoldsItsDeltas ==
    \A k \in ClosedItems :
        LET ds == DeltasBetween(k)
        IN /\ Len(ds) >= 1
           /\ Len(out[k].item.content) = 1
           /\ out[k].item.content[1] = Flatten([j \in 1..Len(ds) |-> ds[j].text])
           /\ out[k].item.kind = "Reasoning" => \A j \in 1..Len(ds) : ds[j].content_index = 0

C25_Witness ==
    /\ Len(frames) = 3
    /\ out = <<ItemAdded(ReasoningItem(<<>>)), ReasoningDelta(<<"p">>, 0),
               ItemAdded(MessageItem(<<>>)), TextDelta(<<"c">>),
               ReasoningDelta(<<"q">>, 0), TextDelta(<<"<">>),
               ItemDone(ReasoningItem(<< <<"p", "q">> >>)),
               ItemDone(MessageItem(<< <<"c", "<">> >>)),
               ItemDone(FunctionCall("do_a", "{}", "a"))>>

---------------------------------------------------------------------------
\* Deltas that carry an id and no index

\* the delta at p carries no index and an id that no earlier delta carried
IsUnseenIdOnly(p) ==
    /\ IsNone(deltaLog[p].delta.index)
    /\ IsSome(deltaLog[p].delta.id)
    /\ \A q \in 1..(p - 1) : deltaLog[q].delta.id # deltaLog[p].delta.id

\* C26: a delta with an id that was not seen before and no index gets a fresh
\* index, the key of no call in the table, so it is merged into no existing
\* call; the call it opens keeps its id, and two such deltas give two
\* FunctionCall items, one per id, sent in the order the ids were first seen.
C26_UnseenIdGetsFreshIndex ==
    /\ EmittedMatchesOut
    /\ \A p \in 1..Len(deltaLog) :
          IsUnseenIdOnly(p) =>
             LET row == deltaLog[p]
                 ds == DeltasOf(row.resolved, row.epoch)
                 mine == EmittedFor(row.resolved, row.epoch)
             IN /\ \A q \in 1..(p - 1) :
                      deltaLog[q].epoch = row.epoch => deltaLog[q].resolved # row.resolved
                /\ ds[1] = row.delta
                /\ row.epoch = epoch => tool_calls[row.resolved].id = row.delta.id
                /\ \A k \in mine : emitted[k].item.call_id = Unwrap(row.delta.id)
                /\ Cardinality(mine) =
                      (IF row.epoch < epoch /\ IsSome(FirstNonEmptyName(ds)) THEN 1 ELSE 0)
    /\ \A p1, p2 \in 1..Len(deltaLog) :
          (p1 < p2 /\ IsUnseenIdOnly(p1) /\ IsUnseenIdOnly(p2)
             /\ deltaLog[p1].epoch = deltaLog[p2].epoch) =>
             /\ deltaLog[p1].resolved # deltaLog[p2].resolved
             /\ \A k1 \in EmittedFor(deltaLog[p1].resolved, deltaLog[p1].epoch),
                   k2 \in EmittedFor(deltaLog[p2].resolved, deltaLog[p2].epoch) : k1 < k2

C26_Witness ==
    \E p1, p2 \in 1..Len(deltaLog) :
        /\ p1 < p2 /\ IsUnseenIdOnly(p1) /\ IsUnseenIdOnly(p2)
        /\ deltaLog[p1].resolved = 0 /\ deltaLog[p2].resolved = 2
        /\ Len(emitted) = 3
        /\ emitted[2].item = FunctionCall("f", "", "c")
        /\ emitted[3].item = FunctionCall("g", "y", "a")

---------------------------------------------------------------------------
\* Frames of several choices, each with a tool-call delta and a finish reason

ChoiceCalls ==
    { ToolCall(Some(0), Some("a"), Func(Some("do_a"), Some("{}"))),
      ToolCall(Some(0), Some("b"), Func(Some("do_b"), Some("{}"))),
      ToolCall(Some(1), Some("a"), Func(Some("do_c"), Some("x"))) }

CallChoice(tc, reason) == Choice(Some(Delta(None, None, Some(<<tc>>))), None, Some(reason))

ChoiceFrames ==
    {Json(None, Some(<<CallChoice(tc1, r1), CallChoice(tc2, "tool_calls")>>)) :
        tc1 \in ChoiceCalls, tc2 \in ChoiceCalls, r1 \in {"tool_calls", "stop"}}

RecvChoices(bound) ==
    \E frame \in ChoiceFrames :
        /\ Len(frames) < bound
        /\ Step(frame)

NextChoices ==
    \/ RecvChoices(MaxFrames)
    \/ RecvToolCall(ChoiceCalls, MaxFrames)
    \/ RecvFinish({"tool_calls"}, MaxFrames)
    \/ RecvDone(MaxFrames)

SpecChoices == InitTool /\ [][NextChoices]_vars

\* the FunctionCall a choice's delta describes by itself
OwnCall(choice) ==
    LET tc == Unwrap(Unwrap(choice.delta).tool_calls)[1]
    IN ItemDone(FunctionCall(NameSent(tc), ArgsFragment(tc), Unwrap(tc.id)))

\* the index the delta of a choice is merged at, in the table as it is
IndexOfFirst(choice) ==
    LET tc == Unwrap(Unwrap(choice.delta).tool_calls)[1]
    IN IF Unwrap(tc.id) \in DOMAIN tool_call_index_by_id
       THEN tool_call_index_by_id[Unwrap(tc.id)] ELSE Unwrap(tc.index)

\* C27 (as stated): when a frame holds several choices, each with a tool-call
\* delta and finish_reason "tool_calls", the call of every choice is sent as a
\* FunctionCall of its own, with its own id, name and arguments, whatever the
\* frames before it left in the table.
C27_EveryChoiceOwnCall ==
    [][\A frame \in {frames'[Len(frames')]} :
          (Len(frames') = Len(frames) + 1 /\ frame \in ChoiceFrames) =>
             LET cs == ChoicesOf(frame)
                 n == Len(cs)
                 calls == SelectSeq(NewEvents, IsFunctionCallDone)
             IN /\ Len(calls) >= n
                /\ \A i \in 1..n : calls[Len(calls) - n + i] = OwnCall(cs[i])]_vars

\* C27 (amended): when a frame holds several choices, each with a tool-call
\* delta and finish_reason "tool_calls" (or "stop"), the choices are handled in
\* array order and the finish reason of a choice does not end the frame; the
\* call of every choice after the first is sent as a FunctionCall of its own,
\* with its own id, name and arguments, also at the same index with a different
\* id, and so is the call of the first choice when the table holds no call at
\* the index its delta is merged at.
C27_EachChoiceEmitsItsCall ==
    [][\A frame \in {frames'[Len(frames')]} :
          (Len(frames') = Len(frames) + 1 /\ frame \in ChoiceFrames) =>
             LET cs == ChoicesOf(frame)
                 n == Len(cs)
                 calls == SelectSeq(NewEvents, IsFunctionCallDone)
             IN /\ Len(calls) >= n
                /\ \A i \in 2..n : calls[Len(calls) - n + i] = OwnCall(cs[i])
                /\ IndexOfFirst(cs[1]) \notin DOMAIN tool_calls =>
                      calls[Len(calls) - n + 1] = OwnCall(cs[1])
                /\ DOMAIN tool_calls = {} => calls = [i \in 1..n |-> OwnCall(cs[i])]
                /\ state' = "Streaming"
                /\ DOMAIN tool_calls' = {}]_vars

C27_Witness ==
    /\ frames = <<Json(None, Some(<<
                      CallChoice(ToolCall(Some(0), Some("a"), Func(Some("do_a"), Some("{}"))),
                                 "tool_calls"),
                      CallChoice(ToolCall(Some(0), Some("b"), Func(Some("do_b"), Some("{}"))),
                                 "tool_calls")>>))>>
    /\ out = <<ItemDone(FunctionCall("do_a", "{}", "a")),
               ItemDone(FunctionCall("do_b", "{}", "b"))>>
---------------------------------------------------------------------------
\* The three collections of the tool-call table

\* the last choice of the frame carries finish_reason "stop" or "tool_calls"
EndsWithFlush(frame) ==
    LET cs == ChoicesOf(frame)
    IN cs # <<>> /\ \E reason \in ToolFinishReasons :
                       cs[Len(cs)].finish_reason = Some(reason)

\* C28: in every reachable state tool_call_order holds no index twice, and the
\* set of its indices is the key set of tool_calls and is tool_call_order_seen;
\* after a flush at finish_reason "stop" or "tool_calls" all three are empty.
C28_OrderTableSeenAgree ==
    /\ \A a, b \in 1..Len(tool_call_order) :
          a # b => tool_call_order[a] # tool_call_order[b]
    /\ {tool_call_order[a] : a \in 1..Len(tool_call_order)} = DOMAIN tool_calls
    /\ DOMAIN tool_calls = tool_call_order_seen
    /\ (frames # <<>> /\ EndsWithFlush(LastFrame)) =>
          /\ tool_call_order = <<>>
          /\ DOMAIN tool_calls = {}
          /\ tool_call_order_seen = {}

\* two calls accumulated, one of them by several deltas, and then flushed
C28_Witness ==
    /\ frames # <<>> /\ EndsWithFlush(LastFrame)
    /\ Len(deltaLog) = 3
    /\ {deltaLog[q].resolved : q \in 1..Len(deltaLog)} = {0, 1}
    /\ \A q \in 1..Len(deltaLog) : deltaLog[q].epoch = 0
    /\ Len(emitted) = 2
    /\ tool_call_order = <<>> /\ tool_call_order_seen = {}
---------------------------------------------------------------------------
\* The id map and the id a call keeps

\* the first id among the deltas, if any of them carries one
FirstId(tcs) ==
    LET with == {k \in 1..Len(tcs) : IsSome(tcs[k].id)}
    IN IF with = {} THEN None ELSE tcs[SetMin(with)].id

\* the index at which the first delta that carried `id` was merged
FirstIndexOfId(id) ==
    deltaLog[SetMin({q \in 1..Len(deltaLog) : deltaLog[q].delta.id = Some(id)})].resolved

\* C29: an id, once mapped to an index, stays mapped to that index for the
\* rest of the turn, whatever deltas or flushes follow (the index is the one of
\* the first delta that carried the id); and the id stored for a call, and sent
\* with it, is the first id received for its index: a later delta with another
\* id for the same index does not replace it.
C29_IdMappingPermanent ==
    /\ [](/\ EmittedMatchesOut
          /\ DOMAIN tool_call_index_by_id =
                {Unwrap(deltaLog[q].delta.id) :
                    q \in {r \in 1..Len(deltaLog) : IsSome(deltaLog[r].delta.id)}}
          /\ \A id \in DOMAIN tool_call_index_by_id :
                tool_call_index_by_id[id] = FirstIndexOfId(id)
          /\ \A i \in DOMAIN tool_calls :
                tool_calls[i].id = FirstId(DeltasOf(i, epoch))
          /\ \A k \in 1..Len(emitted) :
                LET first == FirstId(DeltasOf(emitted[k].index, emitted[k].epoch))
                IN IsSome(first) => emitted[k].item.call_id = Unwrap(first))
    /\ [][\A id \in DOMAIN tool_call_index_by_id :
             /\ id \in DOMAIN tool_call_index_by_id'
             /\ tool_call_index_by_id'[id] = tool_call_index_by_id[id]]_vars

\* id "a" opens the call at index 0, a delta with id "b" is merged there, the
\* call is flushed with id "a", and both ids stay mapped to index 0
C29_Witness ==
    /\ epoch = 1
    /\ Len(deltaLog) = 2
    /\ deltaLog[1].delta.id = Some("a") /\ deltaLog[1].resolved = 0
    /\ deltaLog[2].delta.id = Some("b") /\ deltaLog[2].resolved = 0
    /\ Len(emitted) = 1 /\ emitted[1].item.call_id = "a"
    /\ DOMAIN tool_call_index_by_id = {"a", "b"}
    /\ tool_call_index_by_id["a"] = 0 /\ tool_call_index_by_id["b"] = 0
---------------------------------------------------------------------------
\* Deltas that carry both an index and an id

\* the arguments accumulated at index i, empty when the table holds no call there
ArgumentsAt(i) == IF i \in DOMAIN tool_calls THEN tool_calls[i].arguments ELSE ""

\* C30: a delta with an index and an id whose id is already mapped to another
\* index is merged into the call at the mapped index, and the call at the index
\* the delta carries is left as it was; when the id is not mapped yet, the delta
\* is merged at its own index and the id is mapped to that index from then on.
C30_MappedIdWinsOverIndex ==
    [][\A tc \in ToolDeltas :
          (Handled(ToolCallFrame(<<tc>>)) /\ IsSome(tc.index) /\ IsSome(tc.id)) =>
             LET id == Unwrap(tc.id)
                 own == Unwrap(tc.index)
                 target == IF id \in DOMAIN tool_call_index_by_id
                           THEN tool_call_index_by_id[id] ELSE own
             IN /\ DOMAIN tool_calls' = DOMAIN tool_calls \cup {target}
                /\ tool_calls'[target].arguments = ArgumentsAt(target) \o ArgsFragment(tc)
                /\ \A i \in DOMAIN tool_calls : i # target => tool_calls'[i] = tool_calls[i]
                /\ id \in DOMAIN tool_call_index_by_id'
                /\ tool_call_index_by_id'[id] = target
                /\ last_tool_call_index' = Some(target)
                /\ deltaLog'[Len(deltaLog')].resolved = target]_vars

\* id "a" is mapped to index 0 by a delta that carries index 0, and a later
\* delta with index 1 and id "a" is merged into the call at index 0
C30_Witness ==
    /\ Len(deltaLog) = 2
    /\ deltaLog[1].delta = ToolCall(Some(0), Some("a"), Func(Some("f"), Some("x")))
    /\ deltaLog[2].delta = ToolCall(Some(1), Some("a"), Func(Some("h"), Some("y")))
    /\ deltaLog[2].resolved = 0
    /\ DOMAIN tool_calls = {0}
    /\ tool_calls[0].arguments = "xy"
    /\ tool_call_index_by_id["a"] = 0
---------------------------------------------------------------------------
\* Deltas that carry neither an index nor an id

IsBare(tc) == IsNone(tc.index) /\ IsNone(tc.id)

\* the smallest index at or above the allocation counter that is the key of no call
SmallestUnused ==
    SetMin({n \in next_tool_call_index ..
                  (next_tool_call_index + Cardinality(DOMAIN tool_calls)) :
               n \notin DOMAIN tool_calls})

---------------------------------------------------------------------------
\* What the splitter holds back between two calls

\* for every character of the text: outside a block, inside one, or part of a tag
RECURSIVE ClassesOf(_)
ClassesOf(parts) ==
    LET outs == [k \in 1..Len(parts[1]) |-> "out"]
    IN IF Len(parts) = 1 THEN outs
       ELSE outs \o [k \in 1..Len(OPEN_TAG) |-> "tag"]
                 \o [k \in 1..Len(parts[2]) |-> "in"]
                 \o [k \in 1..Len(CLOSE_TAG) |-> "tag"]
                 \o ClassesOf(Tail(Tail(parts)))

\* the characters of class `cls` among the first m characters of the text
RECURSIVE CharsOfClass(_, _, _, _)
CharsOfClass(text, classes, cls, m) ==
    IF m = 0 THEN <<>>
    ELSE CharsOfClass(text, classes, cls, m - 1)
            \o (IF classes[m] = cls THEN <<text[m]>> ELSE <<>>)

ActiveTag == IF content_splitter.in_think_block THEN CLOSE_TAG ELSE OPEN_TAG

\* C32: after every split_chunk in MinimaxThinkTags mode the pending buffer is
\* a proper prefix of the active boundary tag (the open tag outside a block,
\* the close tag inside), so it is shorter than the tag and holds no complete
\* tag; it is the end of the text received, and everything before it has been
\* returned in a segment of its kind or consumed as a whole tag.
C32_PendingIsTagPrefix ==
    (content_splitter.format = "MinimaxThinkTags" /\ flushes = 0) =>
        LET text == TextOf(src_parts)
            classes == ClassesOf(src_parts)
            fed == Len(text) - Len(rest)
            pending == content_splitter.pending
            m == fed - Len(pending)
            tagChars == Len(CharsOfClass(text, classes, "tag", m))
            pair == Len(OPEN_TAG) + Len(CLOSE_TAG)
        IN /\ Len(pending) <= Len(ActiveTag) - 1
           /\ IsPrefix(pending, ActiveTag)
           /\ IsNone(Find(pending, OPEN_TAG)) /\ IsNone(Find(pending, CLOSE_TAG))
           /\ m >= 0
           /\ pending = SubSeq(text, m + 1, fed)
           /\ asst_cat = CharsOfClass(text, classes, "out", m)
           /\ reas_cat = CharsOfClass(text, classes, "in", m)
           /\ tagChars % pair \in {0, Len(OPEN_TAG)}
           /\ content_splitter.in_think_block = (tagChars % pair = Len(OPEN_TAG))

\* inside a block, text that begins like the close tag is held back
C32_Witness ==
    /\ content_splitter.format = "MinimaxThinkTags" /\ flushes = 0
    /\ content_splitter.in_think_block
    /\ content_splitter.pending = <<"<", "/", "t">>
    /\ Len(src_parts) = 3 /\ src_parts[1] = <<"a">> /\ src_parts[2] = <<"<", "/", "t">>
    /\ rest = CLOSE_TAG \o src_parts[3]
    /\ asst_cat = <<"a">> /\ reas_cat = <<>>
    /\ Len(ret) = 1
---------------------------------------------------------------------------
\* The splitter called with the empty string at any point

\* split_chunk("")
SplitEmpty ==
    /\ Returned(split_chunk(content_splitter, <<>>))
    /\ UNCHANGED <<setupVars, routerVars, src_parts, rest, flushes, midtag>>

NextEmpty == SplitChunk \/ SplitEmpty \/ FlushNow

SpecEmpty == InitSplit /\ [][NextEmpty]_vars

\* C33: split_chunk with the empty string returns no segment and leaves the
\* pending buffer and the in-block flag as they were, in both formats (a step
\* that feeds no text and is no flush is such a call); and no segment that
\* split_chunk or flush_remaining returns has an empty text.
C33_EmptyChunkNoEffect ==
    /\ [](\A k \in 1..Len(ret) : ret[k].text # <<>>)
    /\ [][(rest' = rest /\ flushes' = flushes) =>
             /\ ret' = <<>>
             /\ content_splitter' = content_splitter
             /\ asst_cat' = asst_cat /\ reas_cat' = reas_cat]_vars

\* in Standard mode every non-empty chunk returns a segment, so a state with
\* text fed, no flush and nothing returned is the state after an empty chunk
C33_Witness ==
    /\ content_splitter.format = "Standard"
    /\ flushes = 0
    /\ asst_cat # <<>> /\ rest # <<>>
    /\ ret = <<>>
---------------------------------------------------------------------------
\* The task and a consumer that keeps receiving, up to the end of the channel

\* what ends the frames: a sentinel, the end of the byte stream, a transport
\* error, or the idle timeout when nothing more arrives
Terminators == {Raw("[DONE]"), Poll("end"), Poll("error"), Poll("timeout")}

\* the next poll of the loop; the frames are finitely many, so after
\* MaxFrames - 1 of them the poll returns one of the terminators
LivePoll ==
    \E input \in ChannelInputs :
        /\ sends_done = Len(out)
        /\ Len(frames) < MaxFrames
        /\ Len(frames) = MaxFrames - 1 => input \in Terminators
        /\ Step(input)

\* rx_event.recv().await returning None: the task returned, which dropped
\* tx_event, and the channel is empty
ConsumerSeesEnd ==
    /\ ~rx_dropped /\ ~rx_ended
    /\ tx_closed /\ sends_done = Len(out)
    /\ chan = <<>>
    /\ rx_ended' = TRUE
    /\ UNCHANGED <<setupVars, tool_calls, tool_call_order, tool_call_order_seen,
                   tool_call_index_by_id,
                   next_tool_call_index, last_tool_call_index, assistant_item,
                   reasoning_item, token_usage, out, state, tx_closed, frames, deltaLog,
                   emitted, epoch, chan, sends_done, received, rx_dropped,
                   content_splitter, harnessVars>>

NextLive == LivePoll \/ ProducerSend \/ ConsumerRecv \/ ConsumerSeesEnd

\* the task is scheduled while it can send, and the consumer keeps calling recv
SpecLive ==
    /\ InitChannel /\ [][NextLive]_vars
    /\ WF_vars(ProducerSend)
    /\ WF_vars(ConsumerRecv) /\ WF_vars(ConsumerSeesEnd)

\* C34: with a consumer that keeps receiving, the task is never held at a send
\* for ever, so it gets to every frame of a finite sequence and to what ends
\* it; on the sentinel, the end of the stream, a transport error or an idle
\* timeout it sends its terminal event (Completed or Error) as its one and
\* last event and returns; the channel then closes, and the consumer eventually
\* has received every event and sees the end of the channel.
C34_TaskEndsChannelCloses ==
    /\ [][\A t \in Terminators :
             Handled(t) =>
                /\ state' \in {"Completed", "Failed"} /\ tx_closed'
                /\ IsTerminal(out'[Len(out')])
                /\ Cardinality({k \in 1..Len(out') : IsTerminal(out'[k])}) = 1]_vars
    /\ [](rx_ended =>
             /\ state \in {"Completed", "Failed"}
             /\ tx_closed /\ sends_done = Len(out) /\ chan = <<>>
             /\ received = out)
    /\ (sends_done < Len(out)) ~> (sends_done = Len(out))
    /\ (state # "Streaming") ~> rx_ended

\* a stream with content, reasoning and a tool call that ends in an idle
\* timeout: the consumer has all events, the Error last, and saw the end
C34_Witness ==
    /\ rx_ended
    /\ state = "Failed"
    /\ frames[Len(frames)] = Poll("timeout")
    /\ received = out
    /\ Len(out) >= 6
    /\ IsError(out[Len(out)])
---------------------------------------------------------------------------
\* Tool calls at the end of a completed stream

\* every call of the turn: the index and the flush period of its deltas
AllCalls == {<<deltaLog[q].resolved, deltaLog[q].epoch>> : q \in 1..Len(deltaLog)}

\* C35: in a run that ends with Completed, every call that received a
\* non-empty name has been sent as ItemDone(FunctionCall) before Completed, also
\* when the sentinel or the end of the stream comes with no finish_reason frame
\* after the tool-call deltas.
C35_NoToolCallLost ==
    (state = "Completed") =>
        /\ EmittedMatchesOut
        /\ IsCompleted(out[Len(out)])
        /\ \A c \in AllCalls :
              IsSome(FirstNonEmptyName(DeltasOf(c[1], c[2]))) => EmittedFor(c[1], c[2]) # {}
---------------------------------------------------------------------------
\* The call ids of one stream

\* the provider uses no id for two calls: the deltas that carry one id all
\* belong to one call
ProviderIdsDistinct ==
    \A p, q \in 1..Len(deltaLog) :
        (IsSome(deltaLog[p].delta.id) /\ deltaLog[p].delta.id = deltaLog[q].delta.id) =>
            (deltaLog[p].resolved = deltaLog[q].resolved /\ deltaLog[p].epoch = deltaLog[q].epoch)

\* C36: when the provider uses no id for two calls, no two FunctionCall items
\* of a stream have the same call_id; a call that never received an id has the
\* call_id "tool-call-<index>"; this covers the calls accumulated after an
\* earlier flush, where a delta with neither index nor id reuses the last index.
C36_CallIdsDistinct ==
    ProviderIdsDistinct =>
        /\ EmittedMatchesOut
        /\ \A k \in 1..Len(emitted) :
              IsNone(FirstId(DeltasOf(emitted[k].index, emitted[k].epoch))) =>
                 emitted[k].item.call_id = FallbackCallId(emitted[k].index)
        /\ \A k, l \in 1..Len(emitted) :
              k # l => emitted[k].item.call_id # emitted[l].item.call_id
---------------------------------------------------------------------------
\* Frames whose content or reasoning may be the empty string

TextValues == { <<>>, <<"a">> }

MessageReasoningFrame(rv) == Json(None, Some(<<Choice(None, Some(rv), None)>>))

TextFrames ==
    {ContentFrame(t) : t \in TextValues}
    \cup {Json(None, Some(<<Choice(Some(Delta(None, Some(Items(<<Some(t)>>)), None)),
                                   None, None)>>)) : t \in TextValues}
    \cup {ReasoningFrame(rv) : rv \in UNION {{Str(t), TextObj(t), ContentObj(t)} :
                                                t \in TextValues}}
    \cup {MessageReasoningFrame(Str(t)) : t \in TextValues}

RecvText ==
    \E frame \in TextFrames :
        /\ Len(frames) < MaxFrames
        /\ Step(frame)

NextText == RecvText \/ RecvFinish({"stop"}, MaxFrames) \/ RecvDone(MaxFrames)

SpecText == Init /\ [][NextText]_vars

IsTextEvent(ev) == ev.type \in {"TextDelta", "ReasoningDelta"}

\* C37: an assistant or reasoning item is opened only when non-empty text is
\* appended to it, so its ItemAdded is followed at once by a delta of its kind,
\* and every TextDelta and ReasoningDelta carries non-empty text: an empty
\* string in delta.content, delta.reasoning or message.reasoning opens no item
\* and sends no delta.
C37_OnlyNonEmptyText ==
    /\ \A k \in 1..Len(out) : IsTextEvent(out[k]) => out[k].text # <<>>
    /\ \A k \in 1..Len(out) :
          out[k].type = "ItemAdded" =>
             /\ k < Len(out)
             /\ out[k + 1].type = DeltaTypeOf(out[k].item.kind)
             /\ out[k + 1].text # <<>>
---------------------------------------------------------------------------
\* No call is sent twice

\* C38: a flush at finish_reason "stop" or "tool_calls" takes every call out
\* of the table and the order list, so each call is sent at most once, a
\* finish_reason frame that follows a flush with no tool-call delta in between
\* sends no FunctionCall, and the arguments of each FunctionCall sent are the
\* fragments received since the flush before it and nothing older.
C38_NoCallSentTwice ==
    /\ [](/\ EmittedMatchesOut
          /\ \A c \in AllCalls : Cardinality(EmittedFor(c[1], c[2])) <= 1
          /\ \A k \in 1..Len(emitted) :
                /\ emitted[k].epoch < epoch
                /\ DeltasOf(emitted[k].index, emitted[k].epoch) # <<>>
                /\ emitted[k].item.arguments
                      = ConcatFragments(DeltasOf(emitted[k].index, emitted[k].epoch)))
    /\ [][\A reason \in ToolFinishReasons :
             Handled(FinishFrame(reason)) =>
                /\ DOMAIN tool_calls' = {} /\ tool_call_order' = <<>>
                /\ Len(SelectSeq(NewEvents, IsFunctionCallDone))
                      = Cardinality({i \in DOMAIN tool_calls : IsSome(tool_calls[i].name)})
                /\ (frames # <<>> /\ EndsWithFlush(LastFrame)) =>
                      (SelectSeq(NewEvents, IsFunctionCallDone) = <<>> /\ emitted' = emitted)]_vars

\* a call is sent at "stop"; the "tool_calls" frame right after it sends
\* nothing; a call opened at the same index afterwards holds only its own fragment
C38_Witness ==
    /\ Len(frames) = 4
    /\ frames[1] = ToolCallFrame(<<ToolCall(Some(0), Some("a"), Func(Some("f"), Some("x")))>>)
    /\ frames[2] = FinishFrame("stop")
    /\ frames[3] = FinishFrame("tool_calls")
    /\ frames[4] = ToolCallFrame(<<ToolCall(Some(0), None, Func(None, Some("y")))>>)
    /\ epoch = 2
    /\ Len(emitted) = 1 /\ emitted[1].item = FunctionCall("f", "x", "a")
    /\ tool_calls[0].arguments = "y"
---------------------------------------------------------------------------
\* Two runs on the same frames

\* the locals of a task that has handled nothing yet
FreshTask(format) ==
    [tool_calls |-> <<>>, tool_call_order |-> <<>>, tool_call_order_seen |-> {},
     tool_call_index_by_id |-> <<>>, next_tool_call_index |-> 0,
     last_tool_call_index |-> None, assistant_item |-> None, reasoning_item |-> None,
     content_splitter |-> NewSplitter(format), token_usage |-> None,
     out |-> <<>>, state |-> "Streaming", tx_closed |-> FALSE,
     deltaLog |-> <<>>, emitted |-> <<>>, epoch |-> 0]

\* the reference run: the frames handled one after the other by a task whose
\* sends never wait
RECURSIVE ReferenceRun(_, _)
ReferenceRun(s, fs) ==
    IF fs = <<>> THEN s ELSE ReferenceRun(HandlePoll(s, Head(fs)), Tail(fs))

---------------------------------------------------------------------------
\* endpoint/chat_compat.rs: the reasoning format a provider's stream is set up with

\* the providers of fork_providers.rs
Providers == {"openrouter", "minimax", "zhipu"}

\* faulty variant: MiniMax gets the tag splitter
chat_reasoning_format_ByProvider(p) ==
    IF p = "minimax" THEN "MinimaxThinkTags" ELSE "Standard"

\* fn chat_reasoning_format(_provider): the provider is not looked at
chat_reasoning_format(p) == "Standard"

\* ChatCompatClient::stream_prompt: the format is chosen once and handed to the task
InitSelect ==
    /\ InitTask
    /\ \E p \in Providers :
          /\ provider = Some(p)
          /\ content_splitter = NewSplitter(chat_reasoning_format(p))
    /\ InitHarness

NextSelect ==
    \/ RecvContent(MaxFrames)
    \/ RecvFinish({"stop"}, MaxFrames)
    \/ RecvDone(MaxFrames)

SpecSelect == InitSelect /\ [][NextSelect]_vars

\* the content strings of the frames handled, in order, as one text
ContentSent ==
    Flatten([k \in 1..Len(frames) |->
                LET texts == ContentTexts(ChoicesOf(frames[k]))
                IN IF texts = {} THEN <<>> ELSE CHOOSE t \in texts : TRUE])

HasThinkBlock ==
    \E j, k \in 1..Len(frames) :
        /\ j < k
        /\ frames[j] = ContentFrame(OPEN_TAG \o <<"r">>)
        /\ frames[k] = ContentFrame(CLOSE_TAG \o <<"b">>)

\* C40 (as stated): each provider's stream is set up with one of the two
\* formats, Standard by default, and MinimaxThinkTags for a provider known to
\* send inline think tags (MiniMax), whose think blocks are then split out as
\* reasoning output.
C40_MinimaxGetsTagSplitter ==
    /\ content_splitter.format \in Formats
    /\ (IsSome(provider) /\ provider # Some("minimax")) => content_splitter.format = "Standard"
    /\ provider = Some("minimax") =>
          /\ content_splitter.format = "MinimaxThinkTags"
          /\ HasThinkBlock => \E k \in 1..Len(out) : out[k].type = "ReasoningDelta"

\* C40 (amended): each provider's stream is set up once with one of the two
\* formats, and the selector gives Standard to every provider, MiniMax
\* included: the format does not change during the stream, the content of the
\* stream is sent as assistant text with its think tags verbatim, and content
\* gives no reasoning output.
C40_EveryProviderStandard ==
    /\ [](IsSome(provider) =>
             /\ Unwrap(provider) \in Providers
             /\ content_splitter.format \in Formats
             /\ content_splitter.format = chat_reasoning_format(Unwrap(provider))
             /\ content_splitter.format = "Standard"
             /\ DeltaTexts("TextDelta") = ContentSent
             /\ \A k \in 1..Len(out) : out[k].type # "ReasoningDelta")
    /\ [][content_splitter'.format = content_splitter.format /\ provider' = provider]_vars

\* a MiniMax stream with a think block: the tags are in the assistant text
C40_Witness ==
    /\ provider = Some("minimax")
    /\ frames = <<ContentFrame(OPEN_TAG \o <<"r">>), ContentFrame(CLOSE_TAG \o <<"b">>),
                  FinishFrame("stop")>>
    /\ DoneItems("Message") = {MessageItem(<<OPEN_TAG \o <<"r">> \o CLOSE_TAG \o <<"b">>>>)}
    /\ DoneItems("Reasoning") = {}

====
